---- MODULE Spec2Model ----
(***************************************************************************)
(* Verification model of note-post-mcp.                                    *)
(*                                                                         *)
(* The programs of the repository are modelled each as its own            *)
(* specification over its own group of variables:                          *)
(*   Spec      add-membership-benefit.cjs  main(): the resumable batch     *)
(*             runner with the progress file and the consecutive-error     *)
(*             circuit breaker that restarts the browser;                  *)
(*   SpecBatch batch-publish.cjs  main() + publishArticle(): the batch     *)
(*             publisher;                                                  *)
(*   SpecNote  src/index.ts  CallToolRequestSchema handler + postToNote(): *)
(*             the single publish_note / save_draft call.                  *)
(*   SpecParse parseMarkdown() of src/index.ts, batch-publish.cjs and      *)
(*             publish_single_article.cjs, run line by line on documents   *)
(*             whose strings are sequences of characters, followed by the  *)
(*             image scans extractImages() of src/index.ts and of          *)
(*             publish_single_article.cjs on the parsed body, and by the   *)
(*             placement of the paywall line in the paid-area view;        *)
(*   SpecLive  the two batch runners under weak fairness of their steps    *)
(*             (an awaited operation settles), for termination;            *)
(*   SpecNoteLive  the single call of src/index.ts under weak fairness;    *)
(*   SpecImages  getImageFiles() on the listings of an images folder;      *)
(*   SpecLocate  findMoreButton(), findMembershipMenuItem() and            *)
(*             findPlanAddButton() on the pages they can be called on.     *)
(* The page (note.com's UI) is the environment: every lookup of a control  *)
(* may find it or not, and every awaited page operation may throw.         *)
(***************************************************************************)
EXTENDS Integers, Sequences, FiniteSets, TLC

(***************************************************************************)
(* Bounds of the model (not program constants).                            *)
(***************************************************************************)
\* number of articles left by the date/price filter of main()
NumJobs == 6
\* number of plans given with --plan
NumPlans == 1
\* number of awaited operations the environment lets throw in one run
MaxThrows == 2

\* files in the articles directory of a batch
MaxFiles == 2

\* largest article number
MaxNum == 2

\* lines of a generated Markdown document
MaxLines == 4

\* lines between the delimiters of a generated front matter
MaxFmLines == 3

\* lines of a generated document with image references
MaxImageLines == 2

\* files of a generated images folder
MaxFolderFiles == 3

\* elements a locator with several matches holds
MaxMatches == 1

\* paragraphs shown by the paid-area view
MaxRendered == 2

\* buttons "ラインをこの場所に変更" shown by the paid-area view
MaxButtons == 2

(***************************************************************************)
(* Program constants.                                                      *)
(***************************************************************************)
\* add-membership-benefit.cjs: `if (consecutiveErrors >= 5)`
THRESHOLD == 5

VARIABLES
    \* ---- add-membership-benefit.cjs ----
    pc,                 \* position of main()
    progressFile,       \* PROGRESS_FILE on disk
    progress,           \* the in-memory progress object
    filtered,           \* the job list of this run
    i,                  \* loop index (1-based), equals `processed`
    consecutiveErrors,
    browserOpen,        \* `browser` is a launched, not yet closed browser
    generation,         \* number of successful launchBrowser() calls
    RESUME, DRY_RUN, stateExists,
    err,                \* message of the error being handled by catch
    restartFrom,        \* which call site of restartBrowser() is active
    planIdx,            \* position in planEntries
    throws,             \* thrown errors so far (bounded by MaxThrows)
    \* ---- observation (history) variables of the runner ----
    visited,            \* job identities navigated to in this run, in order
    startCompleted,     \* completed set found in the file at batch start
    waited,             \* a pacing wait happened since the last job ended
    streak,             \* consecutive failed jobs up to now
    jobGen,             \* generation the most recent job ran against
    tripped,            \* the last job left the counter at >= THRESHOLD
    stopReason,         \* why main() ended, "none" while it runs
    planLog,            \* what the last step of the plan loop found and did
    \* ---- what a publish job did to the page (both orchestrators) ----
    ui,                 \* controls filled or activated by the current job
    observed,           \* what the completion wait saw: "url", "text", "none"
    warned,             \* the "could not confirm" warning was logged
    screenshot,         \* a screenshot was captured for the current job
    failStep,           \* step at which the current job threw, "none" if not
    failKind,           \* "missing" (control not found) or "error"
    tries,              \* iteration of the current bounded polling loop
    \* ---- src/index.ts ----
    npc,                \* position of the tool handler / postToNote()
    req,                \* the tool call and the document it names
    nBrowser,           \* "none", "open" or "closed"
    result,             \* the structured result returned to the caller
    \* ---- batch-publish.cjs ----
    bpc,                \* position of main() / publishArticle()
    allFiles,           \* names of the article files, sorted
    START_NUM,          \* first article number to publish
    END_NUM,            \* last article number to publish
    fidx,               \* index of the loop over allFiles
    processedNums,      \* numbers already taken up
    successCount,
    failCount,
    alive,              \* the shared page is usable
    doc,                \* what parseMarkdown() found in the current file
    outcome,            \* how the job of each number ended
    bExit,              \* "none", "done" (summary printed) or "fatal"
    \* ---- parseMarkdown() ----
    ppc,                \* "start", "loop" or "done"
    parser,             \* which of the three parsers runs
    content,            \* the text of the Markdown file
    lines,              \* content.split('\n')
    li,                 \* index of the line the loop is at
    ps,                 \* the parser's local variables
    parsed,             \* the object it returned
    existing,           \* the files that exist, relative to the document
    images,             \* the list built by the scan for image references
    paidArea,           \* the paid-area view and the controls clicked in it
    \* ---- getImageFiles() ----
    files,              \* fs.readdirSync(imagesDir)
    imageFiles,         \* the object it returned, << >> before
    \* ---- the find...() helpers of add-membership-benefit.cjs ----
    finder,             \* which helper is called
    dom,                \* what the page holds for its locators
    located             \* what it returned, << >> before

mvars == <<pc, progressFile, progress, filtered, i, consecutiveErrors,
           browserOpen, generation, RESUME, DRY_RUN, stateExists, err,
           restartFrom, planIdx, throws, visited, startCompleted, waited,
           streak, jobGen, tripped, stopReason, planLog>>

ovars == <<ui, observed, warned, screenshot, failStep, failKind, tries>>

nvars == <<npc, req, nBrowser, result>>

bvars ==
    <<bpc, allFiles, START_NUM, END_NUM, fidx, processedNums, successCount,
      failCount, alive, doc, outcome, bExit>>

lvars == <<finder, dom, located>>

pvars ==
    <<ppc, parser, content, lines, li, ps, parsed, existing, images, paidArea,
      files, imageFiles, lvars>>

vars == <<mvars, ovars, nvars, bvars, pvars>>

(***************************************************************************)
(* Values shared by the specifications                                     *)
(***************************************************************************)
\* an optional value: <<>> is undefined, <<x>> is x
Opt(S) == {<<>>} \cup { <<x>> : x \in S }

\* the front-matter value taken before the caller's
CoalesceParsedFirst(a, b) == IF b # <<>> THEN b ELSE a

\* a ?? b
Coalesce(a, b) == IF a # <<>> THEN a ELSE b

\* page state of a job that has not touched the editor yet
NoUi == [title |-> FALSE, body |-> FALSE, thumb |-> FALSE,
         advanced |-> FALSE, tags |-> FALSE, paid |-> "no",
         magazine |-> FALSE, twitter |-> FALSE, modal |-> FALSE,
         submitClicks |-> 0, draftClicks |-> 0]

NoRequest == [tool |-> "none"]

NoResult == [kind |-> "none"]

NoOutcome == << >>

\* no plan has been looked at yet
NoPlanLog == [found |-> "none", clicked |-> FALSE]

\* no publish job has touched a page
IdleObs ==
    /\ ui = NoUi /\ observed = "none" /\ warned = FALSE
    /\ screenshot = FALSE
    /\ failStep = "none" /\ failKind = "none" /\ tries = 0

\* the MCP server has received no call
IdleNote ==
    /\ npc = "off" /\ req = NoRequest /\ nBrowser = "none"
    /\ result = NoResult

\* the paid-area view has not been looked at
NoPaidArea == [paragraphs |-> << >>, btnCount |-> 0, clicked |-> << >>]

\* no parser is running
IdleParse ==
    /\ ppc = "off" /\ parser = "none" /\ content = << >>
    /\ lines = << >> /\ li = 0 /\ ps = << >> /\ parsed = << >>
    /\ existing = {} /\ images = << >> /\ paidArea = NoPaidArea
    /\ files = << >> /\ imageFiles = << >>
    /\ finder = "none" /\ dom = << >> /\ located = << >>

\* batch-publish.cjs is not running
IdleBatch ==
    /\ bpc = "off" /\ allFiles = << >> /\ START_NUM = 0 /\ END_NUM = 0
    /\ fidx = 0 /\ processedNums = {} /\ successCount = 0
    /\ failCount = 0 /\ alive = FALSE /\ doc = [tags |-> FALSE]
    /\ outcome = NoOutcome /\ bExit = "none"

(***************************************************************************)
(* Strings.  A string is the sequence of its characters, so that trim(),   *)
(* startsWith(), parseInt() and the marker pattern are computed as the      *)
(* JavaScript methods compute them.                                         *)
(***************************************************************************)
\* the characters String.prototype.trim() removes
WhiteSpace == {" ", "\n", "\t", "\r"}

RECURSIVE trimStart(_)
trimStart(s) ==
    IF s # << >> /\ Head(s) \in WhiteSpace THEN trimStart(Tail(s)) ELSE s

RECURSIVE trimEnd(_)
trimEnd(s) ==
    IF s # << >> /\ s[Len(s)] \in WhiteSpace
    THEN trimEnd(SubSeq(s, 1, Len(s) - 1)) ELSE s

\* s.trim()
trim(s) == trimEnd(trimStart(s))

\* s.startsWith(p)
startsWith(s, p) == Len(s) >= Len(p) /\ SubSeq(s, 1, Len(p)) = p

\* s.endsWith(p)
endsWith(s, p) ==
    Len(s) >= Len(p) /\ SubSeq(s, Len(s) - Len(p) + 1, Len(s)) = p

\* s.substring(a)
substring(s, a) == SubSeq(s, a + 1, Len(s))

\* mutant: the whole string, whatever n
substringToWhole(s, n) == s

\* s.substring(0, n)
substringTo(s, n) == SubSeq(s, 1, IF n < Len(s) THEN n ELSE Len(s))

\* s.slice(1, -1)
sliceInner(s) == SubSeq(s, 2, Len(s) - 1)

Quotes == {"\"", "'"}

\* s.replace(/^["']|["']$/g, '')
stripQuotes(s) ==
    LET a == IF s # << >> /\ Head(s) \in Quotes THEN Tail(s) ELSE s IN
    IF a # << >> /\ a[Len(a)] \in Quotes
    THEN SubSeq(a, 1, Len(a) - 1) ELSE a

UpperCase == 
    <<"A", "B", "C", "D", "E", "F", "G", "H", "I", "J", "K", "L", "M",
    "N", "O", "P", "Q", "R", "S", "T", "U", "V", "W", "X", "Y", "Z">>

LowerCase == 
    <<"a", "b", "c", "d", "e", "f", "g", "h", "i", "j", "k", "l", "m",
    "n", "o", "p", "q", "r", "s", "t", "u", "v", "w", "x", "y", "z">>

\* s.toLowerCase()
toLowerCase(s) ==
    [k \in DOMAIN s |->
        IF \E u \in DOMAIN UpperCase : UpperCase[u] = s[k]
        THEN LowerCase[CHOOSE u \in DOMAIN UpperCase : UpperCase[u] = s[k]]
        ELSE s[k]]

DigitChars == <<"0", "1", "2", "3", "4", "5", "6", "7", "8", "9">>

isDigit(c) == \E d \in DOMAIN DigitChars : DigitChars[d] = c

digitValue(c) == (CHOOSE d \in DOMAIN DigitChars : DigitChars[d] = c) - 1

RECURSIVE leadingDigits(_, _)
\* the value of the leading run of digits of s, continuing from acc
leadingDigits(s, acc) ==
    IF s # << >> /\ isDigit(Head(s))
    THEN leadingDigits(Tail(s), 10 * acc + digitValue(Head(s)))
    ELSE acc

\* parseInt(s, 10): leading white space, an optional sign, then digits;
\* << >> stands for NaN
parseInt(s) ==
    LET t == trimStart(s)
        neg == t # << >> /\ Head(t) = "-"
        u == IF t # << >> /\ Head(t) \in {"-", "+"} THEN Tail(t) ELSE t
    IN  IF u = << >> \/ ~isDigit(Head(u)) THEN << >>
        ELSE <<(IF neg THEN -1 ELSE 1) * leadingDigits(u, 0)>>

RECURSIVE split(_, _)
\* s.split(sep) for a one-character separator
split(s, sep) ==
    IF \A k \in DOMAIN s : s[k] # sep THEN <<s>>
    ELSE LET k == CHOOSE n \in DOMAIN s :
                     s[n] = sep /\ \A m \in 1..(n - 1) : s[m] # sep
         IN  <<SubSeq(s, 1, k - 1)>> \o split(SubSeq(s, k + 1, Len(s)), sep)

RECURSIVE joinLines(_)
\* lines.join('\n')
joinLines(ls) ==
    IF ls = << >> THEN << >>
    ELSE IF Len(ls) = 1 THEN ls[1]
    ELSE ls[1] \o <<"\n">> \o joinLines(Tail(ls))

RECURSIVE filterBoolean(_)
\* tags.filter(Boolean): the elements that are not the empty string
filterBoolean(ts) ==
    IF ts = << >> THEN << >>
    ELSE IF Head(ts) = << >> THEN filterBoolean(Tail(ts))
    ELSE <<Head(ts)>> \o filterBoolean(Tail(ts))

WordChars ==
    {UpperCase[k] : k \in DOMAIN UpperCase} \cup
    {LowerCase[k] : k \in DOMAIN LowerCase} \cup
    {DigitChars[k] : k \in DOMAIN DigitChars} \cup {"_"}

\* a match that never succeeds
startsWithKeyNever(s) == FALSE

\* line.match(/^\w+:/)
startsWithKey(s) ==
    \E n \in 2..Len(s) :
        /\ s[n] = ":"
        /\ \A m \in 1..(n - 1) : s[m] \in WordChars

(***************************************************************************)
(* add-membership-benefit.cjs                                              *)
(***************************************************************************)
EmptyProgress == [completed |-> <<>>, failed |-> <<>>]

\* article identities (article.url) after the date/price filter, in order
allArticles == [k \in 1..NumJobs |-> k]

\* progress files an earlier run can have left behind
InitialFiles ==
    { [exists |-> FALSE, completed |-> <<>>, failed |-> <<>>],
      [exists |-> TRUE, completed |-> <<2>>, failed |-> <<>>],
      [exists |-> TRUE, completed |-> <<1, 3>>, failed |-> <<2>>] }

Range(s) == { s[k] : k \in DOMAIN s }

\* loadProgress()
loadProgress ==
    IF progressFile.exists
    THEN [completed |-> progressFile.completed, failed |-> progressFile.failed]
    ELSE EmptyProgress

\* mutant: the write is lost
saveProgressLost(p) == progressFile

\* saveProgress(progress): the file content after the synchronous write
saveProgress(p) ==
    [exists |-> TRUE, completed |-> p.completed, failed |-> p.failed]

\* mutant: the resume filter keeps every article
resumeFilterAll(list, completedSet) == list

\* filtered.filter(a => !completedSet.has(a.url))
resumeFilter(list, completedSet) ==
    SelectSeq(list, LAMBDA a : a \notin completedSet)

\* mutant: no error message is classified as a browser crash
isBrowserCrashNever(msg) == FALSE

\* err.message.includes('closed') || includes('crashed') || includes('Target')
isBrowserCrash(msg) == msg = "Target closed"

\* messages of errors thrown by awaited page operations
PageErrors == {"Target closed", "Timeout"}

\* the loop's next iteration (or its end)
loopPc(k) == IF k <= Len(filtered) THEN "goto" ELSE "final"

Init ==
    /\ pc = "start"
    /\ progressFile \in InitialFiles
    /\ progress = EmptyProgress
    /\ filtered = <<>>
    /\ i = 0
    /\ consecutiveErrors = 0
    /\ browserOpen = FALSE
    /\ generation = 0
    /\ RESUME \in BOOLEAN
    /\ DRY_RUN \in BOOLEAN
    /\ stateExists \in BOOLEAN
    /\ err = "none"
    /\ restartFrom = "none"
    /\ planIdx = 1
    /\ throws = 0
    /\ visited = <<>>
    /\ startCompleted = {}
    /\ waited = FALSE
    /\ streak = 0
    /\ jobGen = 0
    /\ tripped = FALSE
    /\ stopReason = "none"
    /\ planLog = NoPlanLog
    /\ IdleObs /\ IdleNote /\ IdleBatch /\ IdleParse

cfgv == <<RESUME, DRY_RUN, stateExists>>

\* launchBrowser(): a new browser, context and page
launchBrowser ==
    /\ browserOpen' = TRUE
    /\ generation' = generation + 1

\* main(), "レジューム" block up to the state-file check
MainLoad ==
    /\ pc = "start"
    /\ LET p == IF RESUME THEN loadProgress ELSE EmptyProgress
           completedSet == Range(p.completed)
           f == IF RESUME THEN resumeFilter(allArticles, completedSet)
                ELSE allArticles
       IN /\ progress' = p
          /\ filtered' = f
          /\ pc' = IF Len(f) = 0 \/ ~stateExists THEN "exit" ELSE "launch"
          /\ stopReason' = IF Len(f) = 0 THEN "no jobs"
                           ELSE IF ~stateExists THEN "no state file"
                           ELSE "none"
    /\ i' = 1
    /\ startCompleted' = Range(loadProgress.completed)
    /\ UNCHANGED <<progressFile, consecutiveErrors, browserOpen, generation,
                   cfgv, err, restartFrom, planIdx, throws, visited, waited,
                   streak, jobGen, tripped>>
    /\ UNCHANGED <<planLog, ovars, nvars, bvars, pvars>>

\* main(): `await launchBrowser()`; a rejection ends main() (exit code 1)
MainLaunch ==
    /\ pc = "launch"
    /\ \/ /\ launchBrowser
          /\ pc' = "login"
          /\ UNCHANGED <<throws, stopReason>>
       \/ /\ throws < MaxThrows
          /\ throws' = throws + 1
          /\ pc' = "exit"
          /\ stopReason' = "launch failed"
          /\ UNCHANGED <<browserOpen, generation>>
    /\ UNCHANGED <<progressFile, progress, filtered, i, consecutiveErrors,
                   cfgv, err, restartFrom, planIdx, visited, startCompleted,
                   waited, streak, jobGen, tripped>>
    /\ UNCHANGED <<planLog, ovars, nvars, bvars, pvars>>

\* main(), "ログイン確認": the dashboard must not redirect to the login page
MainLoginCheck ==
    /\ pc = "login"
    /\ \/ /\ pc' = "goto"
          /\ UNCHANGED <<browserOpen, throws, stopReason>>
       \/ /\ pc' = "exit"                     \* url includes 'login'
          /\ browserOpen' = FALSE
          /\ stopReason' = "login required"
          /\ UNCHANGED throws
       \/ /\ throws < MaxThrows               \* page.goto rejects
          /\ throws' = throws + 1
          /\ pc' = "exit"
          /\ stopReason' = "dashboard failed"
          /\ browserOpen' = FALSE             \* the process exits
    /\ UNCHANGED <<progressFile, progress, filtered, i, consecutiveErrors,
                   generation, cfgv, err, restartFrom, planIdx, visited,
                   startCompleted, waited, streak, jobGen, tripped>>
    /\ UNCHANGED <<planLog, ovars, nvars, bvars, pvars>>

\* an awaited page operation inside the try block rejects
throwToCatch ==
    /\ throws < MaxThrows
    /\ throws' = throws + 1
    /\ err' \in PageErrors
    /\ pc' = "catch"

\* loop body: `await page.goto(articleUrl)`
Navigate ==
    /\ pc = "goto"
    /\ visited' = Append(visited, filtered[i])
    /\ jobGen' = generation
    /\ \/ /\ pc' = "more"
          /\ UNCHANGED <<err, throws>>
       \/ throwToCatch
    /\ UNCHANGED <<stopReason, progressFile, progress, filtered, i, consecutiveErrors,
                   browserOpen, generation, cfgv, restartFrom, planIdx,
                   startCompleted, waited, streak, tripped>>
    /\ UNCHANGED <<planLog, ovars, nvars, bvars, pvars>>

\* mutant: the early-exit paths never look at the threshold
earlyFailNoBreaker ==
    /\ progress' = [progress EXCEPT !.failed = Append(@, filtered[i])]
    /\ progressFile' = saveProgress(progress')
    /\ consecutiveErrors' = consecutiveErrors + 1
    /\ streak' = streak + 1
    /\ tripped' = (consecutiveErrors' >= THRESHOLD)
    /\ waited' = FALSE
    /\ pc' = loopPc(i + 1)
    /\ restartFrom' = restartFrom
    /\ i' = i + 1

\* the two early-exit paths: failed.push, saveProgress, counters,
\* restart at the threshold, `continue`
earlyFail ==
    /\ progress' = [progress EXCEPT !.failed = Append(@, filtered[i])]
    /\ progressFile' = saveProgress(progress')
    /\ consecutiveErrors' = consecutiveErrors + 1
    /\ streak' = streak + 1
    /\ tripped' = (consecutiveErrors' >= THRESHOLD)
    /\ waited' = FALSE
    /\ IF consecutiveErrors' >= THRESHOLD
       THEN /\ pc' = "restart_close"
            /\ restartFrom' = "early"
            /\ i' = i
       ELSE /\ pc' = loopPc(i + 1)
            /\ restartFrom' = restartFrom
            /\ i' = i + 1

\* findMoreButton(page), the not-found exit, `moreButton.click()`
MoreButton ==
    /\ pc = "more"
    /\ \/ /\ earlyFail
          /\ UNCHANGED <<err, throws>>
       \/ /\ pc' = "menu"
          /\ UNCHANGED <<progressFile, progress, i, consecutiveErrors, err,
                         restartFrom, throws, waited, streak, tripped>>
       \/ /\ throwToCatch
          /\ UNCHANGED <<progressFile, progress, i, consecutiveErrors,
                         restartFrom, waited, streak, tripped>>
    /\ UNCHANGED <<stopReason, filtered, browserOpen, generation, cfgv, planIdx, visited,
                   startCompleted, jobGen>>
    /\ UNCHANGED <<planLog, ovars, nvars, bvars, pvars>>

\* findMembershipMenuItem(page), the not-found exit, the click, the debug
\* screenshot
MembershipMenuItem ==
    /\ pc = "menu"
    /\ \/ /\ earlyFail
          /\ planIdx' = planIdx
          /\ UNCHANGED <<err, throws>>
       \/ /\ pc' = "plans"
          /\ planIdx' = 1
          /\ UNCHANGED <<progressFile, progress, i, consecutiveErrors, err,
                         restartFrom, throws, waited, streak, tripped>>
       \/ /\ throwToCatch
          /\ planIdx' = planIdx
          /\ UNCHANGED <<progressFile, progress, i, consecutiveErrors,
                         restartFrom, waited, streak, tripped>>
    /\ UNCHANGED <<stopReason, filtered, browserOpen, generation, cfgv, visited,
                   startCompleted, jobGen>>
    /\ UNCHANGED <<planLog, ovars, nvars, bvars, pvars>>

\* findPlanAddButton(page, pattern, name): 'already_added', null or a button
PlanResults == {"already_added", "none", "button"}

\* the plan loop without the `if (DRY_RUN)` branch
skipClickIgnoringDryRun(planResult) == planResult # "button"

\* the three `continue`s before `await result.click()`: already added,
\* button not found, dry run
skipClick(planResult) == planResult # "button" \/ DRY_RUN

\* `for (const plan of planEntries)`: one plan per step
PlanStep ==
    /\ pc = "plans"
    /\ \E planResult \in PlanResults :
          \/ /\ skipClick(planResult)                 \* `continue`
             /\ planLog' = [found |-> planResult, clicked |-> FALSE]
             /\ pc' = IF planIdx < NumPlans THEN "plans" ELSE "close"
             /\ planIdx' = IF planIdx < NumPlans THEN planIdx + 1 ELSE planIdx
             /\ UNCHANGED <<err, throws>>
          \/ /\ ~skipClick(planResult)                \* `await result.click()`
             /\ planLog' = [found |-> planResult, clicked |-> TRUE]
             /\ \/ /\ pc' = IF planIdx < NumPlans THEN "plans" ELSE "close"
                   /\ planIdx' = IF planIdx < NumPlans THEN planIdx + 1
                                 ELSE planIdx
                   /\ UNCHANGED <<err, throws>>
                \/ /\ throwToCatch
                   /\ planIdx' = planIdx
    /\ UNCHANGED <<stopReason, progressFile, progress, filtered, i, consecutiveErrors,
                   browserOpen, generation, cfgv, restartFrom, visited,
                   startCompleted, waited, streak, jobGen, tripped>>
    /\ UNCHANGED <<ovars, nvars, bvars, pvars>>

\* mutant: a successful job that leaves the counter as it is
CloseAndRecordKeepsCounter ==
    /\ pc = "close"
    /\ progress' = [progress EXCEPT !.completed = Append(@, filtered[i])]
    /\ progressFile' = saveProgress(progress')
    /\ consecutiveErrors' = consecutiveErrors
    /\ pc' = "pace"
    /\ streak' = 0
    /\ tripped' = FALSE
    /\ waited' = FALSE
    /\ UNCHANGED <<stopReason, filtered, i, browserOpen, generation, cfgv, err,
                   restartFrom, planIdx, throws, visited, startCompleted,
                   jobGen>>
    /\ UNCHANGED <<planLog, ovars, nvars, bvars, pvars>>

\* closeModal(page); progress.completed.push(article.url);
\* saveProgress(progress); consecutiveErrors = 0
CloseAndRecord ==
    /\ pc = "close"
    /\ progress' = [progress EXCEPT !.completed = Append(@, filtered[i])]
    /\ progressFile' = saveProgress(progress')
    /\ consecutiveErrors' = 0
    /\ pc' = "pace"
    /\ streak' = 0
    /\ tripped' = FALSE
    /\ waited' = FALSE
    /\ UNCHANGED <<stopReason, filtered, i, browserOpen, generation, cfgv, err,
                   restartFrom, planIdx, throws, visited, startCompleted,
                   jobGen>>
    /\ UNCHANGED <<planLog, ovars, nvars, bvars, pvars>>

\* "レート制限": `await page.waitForTimeout(500)`, last statement of the try
RateLimit ==
    /\ pc = "pace"
    /\ \/ /\ waited' = TRUE
          /\ i' = i + 1
          /\ pc' = loopPc(i + 1)
          /\ UNCHANGED <<err, throws>>
       \/ /\ throwToCatch
          /\ UNCHANGED <<waited, i>>
    /\ UNCHANGED <<stopReason, progressFile, progress, filtered, consecutiveErrors,
                   browserOpen, generation, cfgv, restartFrom, planIdx,
                   visited, startCompleted, streak, jobGen, tripped>>
    /\ UNCHANGED <<planLog, ovars, nvars, bvars, pvars>>

\* mutant: an ordinary failure leaves the loop
catchBreak ==
    /\ pc' = "final"
    /\ restartFrom' = "none"
    /\ waited' = TRUE
    /\ i' = i

\* mutant: an ordinary failure runs the same article again
catchRetry ==
    /\ pc' = "goto"
    /\ restartFrom' = "none"
    /\ waited' = TRUE
    /\ i' = i

\* catch block, last else: Escape, 500 ms, then the next iteration
catchContinue ==
    /\ pc' = loopPc(i + 1)
    /\ restartFrom' = "none"
    /\ waited' = TRUE
    /\ i' = i + 1

\* `catch (err)`: record the failure, then restart on a crash or at the
\* threshold, else press Escape and wait 500 ms
Catch ==
    /\ pc = "catch"
    /\ progress' = [progress EXCEPT !.failed = Append(@, filtered[i])]
    /\ progressFile' = saveProgress(progress')
    /\ consecutiveErrors' = consecutiveErrors + 1
    /\ streak' = IF restartFrom = "early" THEN streak ELSE streak + 1
    /\ tripped' = (restartFrom = "early" \/ consecutiveErrors' >= THRESHOLD)
    /\ IF isBrowserCrash(err) \/ consecutiveErrors' >= THRESHOLD
       THEN /\ pc' = "restart_close"
            /\ restartFrom' = "catch"
            /\ waited' = FALSE
            /\ i' = i
       ELSE catchContinue
    /\ UNCHANGED <<stopReason, filtered, browserOpen, generation, cfgv, err, planIdx,
                   throws, visited, startCompleted, jobGen>>
    /\ UNCHANGED <<planLog, ovars, nvars, bvars, pvars>>

\* mutant: a restart that does not close the old browser
RestartCloseLeavesOpen ==
    /\ pc = "restart_close"
    /\ browserOpen' = browserOpen
    /\ waited' = TRUE
    /\ pc' = "restart_launch"
    /\ UNCHANGED <<stopReason, progressFile, progress, filtered, i, consecutiveErrors,
                   generation, cfgv, err, restartFrom, planIdx, throws,
                   visited, startCompleted, streak, jobGen, tripped>>
    /\ UNCHANGED <<planLog, ovars, nvars, bvars, pvars>>

\* restartBrowser(): `try { await browser.close() } catch {}` and the 2 s wait
RestartClose ==
    /\ pc = "restart_close"
    /\ browserOpen' = FALSE
    /\ waited' = TRUE
    /\ pc' = "restart_launch"
    /\ UNCHANGED <<stopReason, progressFile, progress, filtered, i, consecutiveErrors,
                   generation, cfgv, err, restartFrom, planIdx, throws,
                   visited, startCompleted, streak, jobGen, tripped>>
    /\ UNCHANGED <<planLog, ovars, nvars, bvars, pvars>>

\* restartBrowser() rejects: the early-exit call sites are inside the try
\* block (the catch handles it), the call sites of the catch block `break`
restartThrows(msg) ==
    /\ throws < MaxThrows
    /\ throws' = throws + 1
    /\ IF restartFrom = "early"
       THEN pc' = "catch" /\ err' = msg /\ stopReason' = stopReason
       ELSE pc' = "final" /\ err' = err /\ stopReason' = msg

\* restartBrowser(): `await launchBrowser()`
RestartLaunch ==
    /\ pc = "restart_launch"
    /\ \/ /\ launchBrowser
          /\ pc' = "restart_verify"
          /\ UNCHANGED <<err, throws, stopReason>>
       \/ /\ \E msg \in PageErrors : restartThrows(msg)
          /\ UNCHANGED <<browserOpen, generation>>
    /\ UNCHANGED <<progressFile, progress, filtered, i, consecutiveErrors,
                   cfgv, restartFrom, planIdx, visited, startCompleted,
                   waited, streak, jobGen, tripped>>
    /\ UNCHANGED <<planLog, ovars, nvars, bvars, pvars>>

\* restartBrowser(): the dashboard check, then `consecutiveErrors = 0` at the
\* call site and the next iteration
RestartVerify ==
    /\ pc = "restart_verify"
    /\ \/ /\ consecutiveErrors' = 0
          /\ restartFrom' = "none"
          /\ i' = i + 1
          /\ pc' = loopPc(i + 1)
          /\ UNCHANGED <<err, throws, stopReason>>
       \/ /\ \E msg \in PageErrors \cup {"login required"} :
                restartThrows(msg)
          /\ UNCHANGED <<consecutiveErrors, restartFrom, i>>
    /\ UNCHANGED <<progressFile, progress, filtered, browserOpen, generation,
                   cfgv, planIdx, visited, startCompleted, waited, streak,
                   jobGen, tripped>>
    /\ UNCHANGED <<planLog, ovars, nvars, bvars, pvars>>

\* "最終レポート": `try { await browser.close() } catch {}`
Final ==
    /\ pc = "final"
    /\ browserOpen' = FALSE
    /\ pc' = "exit"
    /\ stopReason' = IF stopReason = "none" THEN "finished" ELSE stopReason
    /\ UNCHANGED <<progressFile, progress, filtered, i, consecutiveErrors,
                   generation, cfgv, err, restartFrom, planIdx, throws,
                   visited, startCompleted, waited, streak, jobGen, tripped>>
    /\ UNCHANGED <<planLog, ovars, nvars, bvars, pvars>>

Next ==
    \/ MainLoad \/ MainLaunch \/ MainLoginCheck
    \/ Navigate \/ MoreButton \/ MembershipMenuItem \/ PlanStep
    \/ CloseAndRecord \/ RateLimit \/ Catch
    \/ RestartClose \/ RestartLaunch \/ RestartVerify
    \/ Final

Spec == Init /\ [][Next]_vars

(***************************************************************************)
(* Claims about the batch runner (add-membership-benefit.cjs), under Spec  *)
(***************************************************************************)
recorded(p) == Range(p.completed) \cup Range(p.failed)

fileStore == [completed |-> progressFile.completed,
              failed |-> progressFile.failed]

\* positions of main() at which the page of the current article is driven
JobPcs == {"goto", "more", "menu", "plans", "close"}

\* C1: with resume enabled, no article that is in the completed list of the
\* progress file at batch start is navigated to (or acted on) in that run.
C1_ResumeSkipsCompleted ==
    RESUME => \A k \in DOMAIN visited : visited[k] \notin startCompleted

C1_Witness ==
    /\ RESUME /\ startCompleted # {} /\ pc = "exit"
    /\ Len(visited) = Len(filtered) /\ Len(visited) > 0

C3_Original ==
    pc = "goto" =>
        /\ \A k \in 1..(i - 1) : filtered[k] \in recorded(progress)
        /\ fileStore = progress

\* C3 amended: at every moment all the jobs of this run before the current
\* one are recorded in the progress file (completed or failed), and at the
\* start of every job but the first of a run without resume the file equals
\* the in-memory store.
C3_RecordedBeforeNext ==
    /\ pc \in JobPcs \cup {"pace", "catch"} =>
          \A k \in 1..(i - 1) : filtered[k] \in recorded(fileStore)
    /\ (pc = "goto" /\ (RESUME \/ i > 1)) => fileStore = progress

C3_Witness ==
    /\ pc = "goto" /\ i > 2 /\ ~RESUME /\ startCompleted # {}
    /\ Range(progress.completed) # {} /\ Range(progress.failed) # {}

C5_InOrderOneAtATime ==
    /\ Len(visited) <= Len(filtered)
    /\ visited = SubSeq(filtered, 1, Len(visited))
    /\ \A a, b \in DOMAIN visited : a # b => visited[a] # visited[b]
    /\ pc \in JobPcs =>
          /\ Len(visited) \in {i - 1, i}
          /\ \A k \in 1..(i - 1) : filtered[k] \in recorded(progress)

C5_Witness ==
    pc = "plans" /\ i = NumJobs /\ Len(visited) = NumJobs

\* C6 as stated: a pacing wait separates the end of every executed job from
\* the start of the next one, whatever the outcome of the job.
C6_PacingEveryOutcome ==
    (pc = "goto" /\ i > 1) => waited

\* add-membership-benefit.cjs is not running
IdleMembership ==
    /\ pc = "off" /\ progressFile = EmptyProgress /\ progress = EmptyProgress
    /\ filtered = <<>> /\ i = 0 /\ consecutiveErrors = 0
    /\ browserOpen = FALSE /\ generation = 0
    /\ RESUME = FALSE /\ DRY_RUN = FALSE /\ stateExists = FALSE
    /\ err = "none" /\ restartFrom = "none" /\ planIdx = 0 /\ throws = 0
    /\ visited = <<>> /\ startCompleted = {} /\ waited = FALSE
    /\ streak = 0 /\ jobGen = 0 /\ tripped = FALSE /\ stopReason = "none"
    /\ planLog = NoPlanLog

(***************************************************************************)
(* src/index.ts: the MCP tool handler and postToNote()                     *)
(***************************************************************************)
\* PublishNoteSchema: `price: z.number().min(100).max(50000).optional()`
PriceMin == 100

PriceMax == 50000

\* `for (let i = 0; i < 10; i++)` while the proceed button is disabled
ProceedTries == 10

\* `for (let i = 0; i < 30; i++)` while the publish button is disabled
EnableTries == 30

\* what parseMarkdown() returned for the document: tags and the optional
\* front-matter settings
ParsedDocs ==
    [tags : {<<>>, <<"t1">>}, price : Opt({50, 500}),
     magazine : Opt({"M2"}), postToTwitter : Opt({TRUE})]

\* the tool calls a client can make; save_draft has no price, magazine or
\* post_to_twitter argument (SaveDraftSchema)
Requests ==
    { r \in [tool : {"publish_note", "save_draft", "unknown_tool"},
             price : Opt({50, 300, 50001}), magazine : Opt({"M1"}),
             postToTwitter : Opt(BOOLEAN), thumbnail : BOOLEAN,
             mdExists : BOOLEAN, stateExists : BOOLEAN,
             parsed : ParsedDocs] :
        /\ r.tool # "publish_note" =>
              r.price = <<>> /\ r.magazine = <<>> /\ r.postToTwitter = <<>>
        /\ r.tool = "unknown_tool" =>
              /\ ~r.thumbnail /\ r.mdExists /\ r.stateExists
              /\ r.parsed = [tags |-> <<>>, price |-> <<>>,
                             magazine |-> <<>>, postToTwitter |-> <<>>] }

\* `isPublic: true` for publish_note, `isPublic: false` for save_draft
isPublic == req.tool = "publish_note"

\* `const price = params.price ?? parsed.price`
price == Coalesce(req.price, req.parsed.price)

\* `const isPaid = price !== undefined && price >= 100`
isPaid == price # <<>> /\ price[1] >= PriceMin

\* `const magazine = params.magazine ?? parsed.magazine`
magazine == Coalesce(req.magazine, req.parsed.magazine)

\* `params.postToTwitter ?? parsed.postToTwitter ?? false`
postToTwitter ==
    Coalesce(Coalesce(req.postToTwitter, req.parsed.postToTwitter),
             <<FALSE>>)[1]

InitNote ==
    /\ req \in Requests
    /\ npc = "call" /\ nBrowser = "none" /\ result = NoResult
    /\ IdleObs /\ IdleMembership /\ IdleBatch /\ IdleParse

\* the handler's `catch (error)`: { success: false, error } with isError
toolError(msg) ==
    /\ result' = [kind |-> "Error", success |-> FALSE, error |-> msg]
    /\ npc' = "returned"

\* a statement inside postToNote()'s `try` throws
nThrow(step, kind) ==
    /\ npc' = "catch"
    /\ failStep' = step
    /\ failKind' = kind

\* a schema without limits on the price
priceAcceptedAny(p) == TRUE

\* PublishNoteSchema: `price: z.number().min(100).max(50000).optional()`
priceAccepted(p) ==
    IF p = <<>> THEN TRUE ELSE p[1] >= PriceMin /\ p[1] <= PriceMax

\* dispatch on the tool name and validate the arguments
CallTool ==
    /\ npc = "call"
    /\ \/ /\ req.tool = "unknown_tool"
          /\ toolError("Unknown tool")
       \/ /\ req.tool = "publish_note"
          /\ ~priceAccepted(req.price)
          /\ toolError("invalid arguments")
       \/ /\ req.tool = "publish_note"
          /\ priceAccepted(req.price)
          /\ npc' = "read"
          /\ UNCHANGED result
       \/ /\ req.tool = "save_draft"
          /\ npc' = "read"
          /\ UNCHANGED result
    /\ UNCHANGED <<req, nBrowser, ovars, mvars, bvars, pvars>>

\* postToNote() before the browser exists: the document and the state file
ReadDocument ==
    /\ npc = "read"
    /\ \/ /\ ~req.mdExists
          /\ toolError("Markdown file not found")
       \/ /\ req.mdExists /\ ~req.stateExists
          /\ toolError("State file not found")
       \/ /\ req.mdExists /\ req.stateExists
          /\ npc' = "launch"
          /\ UNCHANGED result
    /\ UNCHANGED <<req, nBrowser, ovars, mvars, bvars, pvars>>

\* `chromium.launch()` is outside the try block
LaunchChromium ==
    /\ npc = "launch"
    /\ \/ /\ nBrowser' = "open"
          /\ npc' = "open"
          /\ UNCHANGED result
       \/ /\ toolError("launch failed")
          /\ UNCHANGED nBrowser
    /\ UNCHANGED <<req, ovars, mvars, bvars, pvars>>

\* new context and page, goto the editor, wait for the title field
OpenEditor ==
    /\ npc = "open"
    /\ \/ /\ npc' = "thumb"
          /\ UNCHANGED <<failStep, failKind>>
       \/ nThrow("title", "missing")
       \/ nThrow("open", "error")
    /\ UNCHANGED <<req, nBrowser, result, ui, observed, warned, screenshot,
                   tries, mvars, bvars, pvars>>

\* `if (thumbnailPath && fs.existsSync(thumbnailPath))`
Thumbnail ==
    /\ npc = "thumb"
    /\ \/ /\ ~req.thumbnail
          /\ npc' = "title"
          /\ UNCHANGED <<ui, failStep, failKind>>
       \/ /\ req.thumbnail
          /\ \/ /\ ui' = [ui EXCEPT !.thumb = TRUE]
                /\ npc' = "title"
                /\ UNCHANGED <<failStep, failKind>>
             \/ /\ nThrow("thumbnail", "missing")
                /\ UNCHANGED ui
             \/ /\ nThrow("thumbnail", "error")
                /\ UNCHANGED ui
    /\ UNCHANGED <<req, nBrowser, result, observed, warned, screenshot,
                   tries, mvars, bvars, pvars>>

\* `await page.fill('textarea[placeholder*="タイトル"]', title)`
SetTitle ==
    /\ npc = "title"
    /\ \/ /\ ui' = [ui EXCEPT !.title = TRUE]
          /\ npc' = "body"
          /\ UNCHANGED <<failStep, failKind>>
       \/ /\ nThrow("title", "error")
          /\ UNCHANGED ui
    /\ UNCHANGED <<req, nBrowser, result, observed, warned, screenshot,
                   tries, mvars, bvars, pvars>>

\* postToNote() without its draft branch
modeAfterBodyFallThrough == "proceed"

\* `if (!isPublic) { ... return }`, otherwise go on to publish
modeAfterBody == IF isPublic THEN "proceed" ELSE "draft"

\* wait for the body editor, paste the body, then branch on the mode
SetBody ==
    /\ npc = "body"
    /\ \/ /\ ui' = [ui EXCEPT !.body = TRUE]
          /\ npc' = modeAfterBody
          /\ UNCHANGED <<failStep, failKind>>
       \/ /\ nThrow("body", "missing")
          /\ UNCHANGED ui
       \/ /\ nThrow("body", "error")
          /\ UNCHANGED ui
    /\ UNCHANGED <<req, nBrowser, result, observed, warned, screenshot,
                   tries, mvars, bvars, pvars>>

\* `if (!isPublic)`: save the draft, close the browser and return
SaveDraft ==
    /\ npc = "draft"
    /\ \/ /\ \E enabled \in BOOLEAN :
                ui' = [ui EXCEPT !.draftClicks =
                                    IF enabled THEN @ + 1 ELSE @]
          /\ nBrowser' = "closed"
          /\ screenshot' = TRUE
          /\ result' = [kind |-> "DraftSaved", success |-> TRUE,
                        url |-> "editor"]
          /\ npc' = "returned"
          /\ UNCHANGED <<failStep, failKind>>
       \/ /\ nThrow("draft", "missing")
          /\ UNCHANGED <<ui, nBrowser, result, screenshot>>
       \/ /\ \E enabled \in BOOLEAN :
                ui' = [ui EXCEPT !.draftClicks =
                                    IF enabled THEN @ + 1 ELSE @]
          /\ nThrow("draft", "error")
          /\ UNCHANGED <<nBrowser, result, screenshot>>
    /\ UNCHANGED <<req, observed, warned, tries, mvars, bvars, pvars>>

\* `await proceedBtn.waitFor({ state: 'visible', timeout })`
ProceedFind ==
    /\ npc = "proceed"
    /\ \/ /\ npc' = "proceed_poll"
          /\ tries' = 0
          /\ UNCHANGED <<failStep, failKind>>
       \/ /\ nThrow("proceed", "missing")
          /\ UNCHANGED tries
    /\ UNCHANGED <<req, nBrowser, result, ui, observed, warned, screenshot,
                   mvars, bvars, pvars>>

\* one iteration of the enable loop: the button is still disabled
ProceedPoll ==
    /\ npc = "proceed_poll"
    /\ tries < ProceedTries
    /\ \/ /\ tries' = tries + 1
          /\ UNCHANGED <<npc, failStep, failKind>>
       \/ /\ nThrow("proceed", "error")
          /\ UNCHANGED tries
    /\ UNCHANGED <<req, nBrowser, result, ui, observed, warned, screenshot,
                   mvars, bvars, pvars>>

\* `await proceedBtn.click({ force: true })`: after `break` or ten tries
ProceedClick ==
    /\ npc = "proceed_poll"
    /\ \/ /\ ui' = [ui EXCEPT !.advanced = TRUE]
          /\ npc' = "tags"
          /\ UNCHANGED <<failStep, failKind>>
       \/ /\ nThrow("proceed", "error")
          /\ UNCHANGED ui
    /\ tries' = 0
    /\ UNCHANGED <<req, nBrowser, result, observed, warned, screenshot,
                   mvars, bvars, pvars>>

\* the tag input is not found: `tagInput.waitFor()` rejects, and no
\* try/catch surrounds it
tagInputMissing ==
    /\ nThrow("tags", "missing")
    /\ UNCHANGED ui

\* `if (tags.length > 0)`
AddTags ==
    /\ npc = "tags"
    /\ \/ /\ req.parsed.tags = <<>>
          /\ npc' = "paid"
          /\ UNCHANGED <<ui, failStep, failKind>>
       \/ /\ req.parsed.tags # <<>>
          /\ \/ /\ ui' = [ui EXCEPT !.tags = TRUE]
                /\ npc' = "paid"
                /\ UNCHANGED <<failStep, failKind>>
             \/ tagInputMissing
             \/ /\ nThrow("tags", "error")
                /\ UNCHANGED ui
    /\ UNCHANGED <<req, nBrowser, result, observed, warned, screenshot,
                   tries, mvars, bvars, pvars>>

\* `if (isPaid && price)`: the whole block is inside try/catch
SetPaid ==
    /\ npc = "paid"
    /\ \/ /\ ~isPaid
          /\ UNCHANGED ui
       \/ /\ isPaid
          /\ \E applied \in {"no", "toggled", "priced"} :
                ui' = [ui EXCEPT !.paid = applied]
    /\ npc' = "magazine"
    /\ UNCHANGED <<req, nBrowser, result, observed, warned, screenshot,
                   failStep,
                   failKind, tries, mvars, bvars, pvars>>

\* `if (magazine)`: the whole block is inside try/catch
AddMagazine ==
    /\ npc = "magazine"
    /\ \/ /\ magazine = <<>>
          /\ UNCHANGED ui
       \/ /\ magazine # <<>>
          /\ \E magazineAdded \in BOOLEAN :
                ui' = [ui EXCEPT !.magazine = magazineAdded]
    /\ npc' = "twitter"
    /\ UNCHANGED <<req, nBrowser, result, observed, warned, screenshot,
                   failStep,
                   failKind, tries, mvars, bvars, pvars>>

\* `if (postToTwitter)`: the whole block is inside try/catch
EnableTwitter ==
    /\ npc = "twitter"
    /\ \/ /\ ~postToTwitter
          /\ UNCHANGED ui
       \/ /\ postToTwitter
          /\ \E twitterEnabled \in BOOLEAN :
                ui' = [ui EXCEPT !.twitter = twitterEnabled]
    /\ npc' = "submit"
    /\ UNCHANGED <<req, nBrowser, result, observed, warned, screenshot,
                   failStep,
                   failKind, tries, mvars, bvars, pvars>>

\* `await publishBtn.waitFor({ state: 'visible', timeout })`
SubmitFind ==
    /\ npc = "submit"
    /\ \/ /\ npc' = "submit_poll"
          /\ tries' = 0
          /\ UNCHANGED <<failStep, failKind>>
       \/ /\ nThrow("submit", "missing")
          /\ UNCHANGED tries
    /\ UNCHANGED <<req, nBrowser, result, ui, observed, warned, screenshot,
                   mvars, bvars, pvars>>

\* one iteration of the enable loop: the button is still disabled
SubmitPoll ==
    /\ npc = "submit_poll"
    /\ tries < EnableTries
    /\ \/ /\ tries' = tries + 1
          /\ UNCHANGED <<npc, failStep, failKind>>
       \/ /\ nThrow("submit", "error")
          /\ UNCHANGED tries
    /\ UNCHANGED <<req, nBrowser, result, ui, observed, warned, screenshot,
                   mvars, bvars, pvars>>

\* `await publishBtn.click({ force: true })`: after `break` or thirty tries
SubmitClick ==
    /\ npc = "submit_poll"
    /\ \/ /\ ui' = [ui EXCEPT !.submitClicks = @ + 1]
          /\ npc' = "confirm"
          /\ UNCHANGED <<failStep, failKind>>
       \/ /\ nThrow("submit", "error")
          /\ UNCHANGED ui
    /\ tries' = 0
    /\ UNCHANGED <<req, nBrowser, result, observed, warned, screenshot,
                   mvars, bvars, pvars>>

\* `Promise.race([waitForURL, 投稿しました, waitForTimeout(5000)])`: the
\* first two swallow their timeouts, and nothing is logged when the plain
\* timeout wins
ConfirmWait ==
    /\ npc = "confirm"
    /\ \/ /\ observed' \in {"url", "text", "none"}
          /\ npc' = "finish"
          /\ UNCHANGED <<failStep, failKind>>
       \/ /\ nThrow("confirm", "error")
          /\ UNCHANGED observed
    /\ UNCHANGED <<req, nBrowser, result, ui, warned, screenshot, tries,
                   mvars, bvars, pvars>>

\* screenshot, `page.url()`, close, and the success result
Finish ==
    /\ npc = "finish"
    /\ \/ /\ \E url \in {"publish", "note"} :
                /\ observed = "url" => url = "note"
                /\ result' = [kind |-> "Published", success |-> TRUE,
                              url |-> url, isPaid |-> isPaid,
                              price |-> IF isPaid THEN price ELSE <<>>,
                              magazine |-> IF ui.magazine THEN magazine
                                           ELSE <<>>,
                              postedToTwitter |-> ui.twitter]
          /\ screenshot' = TRUE
          /\ nBrowser' = "closed"
          /\ npc' = "returned"
          /\ UNCHANGED <<failStep, failKind>>
       \/ /\ nThrow("screenshot", "error")
          /\ UNCHANGED <<nBrowser, result, screenshot>>
    /\ UNCHANGED <<req, ui, observed, warned, tries, mvars, bvars, pvars>>

\* mutant: a catch block that rethrows without closing the browser
CatchAndRethrow ==
    /\ npc = "catch"
    /\ nBrowser' = nBrowser
    /\ toolError(failStep)
    /\ UNCHANGED <<req, ovars, mvars, bvars, pvars>>

\* `catch (error) { await browser.close(); throw error; }`
CatchAndClose ==
    /\ npc = "catch"
    /\ nBrowser' = "closed"
    /\ toolError(failStep)
    /\ UNCHANGED <<req, ovars, mvars, bvars, pvars>>

NextNote ==
    \/ CallTool
    \/ ReadDocument
    \/ LaunchChromium
    \/ OpenEditor
    \/ Thumbnail
    \/ SetTitle
    \/ SetBody
    \/ SaveDraft
    \/ ProceedFind
    \/ ProceedPoll
    \/ ProceedClick
    \/ AddTags
    \/ SetPaid
    \/ AddMagazine
    \/ EnableTwitter
    \/ SubmitFind
    \/ SubmitPoll
    \/ SubmitClick
    \/ ConfirmWait
    \/ Finish
    \/ CatchAndClose

SpecNote == InitNote /\ [][NextNote]_vars

\* the call under weak fairness: postToNote() is one sequential async
\* function whose awaits all carry a timeout
SpecNoteLive == InitNote /\ [][NextNote]_vars /\ WF_vars(NextNote)

(***************************************************************************)
(* Claims about src/index.ts                                               *)
(***************************************************************************)
\* the controls of the settings view that a job can do without
OptionalControls == {"tags", "paid", "magazine"}

\* C7: a missing optional control never blocks publication: when the tag
\* input, the paid toggle or its price field, or the magazine tab cannot be
\* found, the step is skipped and the job goes on to the submit control; so
\* no job fails because a control of an optional step was not found.
C7_OptionalNeverBlocks ==
    failKind = "missing" => failStep \notin OptionalControls

\* C9: in draft mode the job stops after the body is injected: the settings
\* view is never opened, no tag, price or magazine is applied, the submit
\* control is never activated, and the job ends as DraftSaved or as an error.
C9_DraftStopsAfterBody ==
    ~isPublic =>
        /\ ~ui.advanced /\ ~ui.tags /\ ui.paid = "no" /\ ~ui.magazine
        /\ ui.submitClicks = 0
        /\ npc \in {"call", "read", "launch", "open", "thumb", "title",
                    "body", "draft", "catch", "returned"}
        /\ npc = "draft" => ui.body
        /\ npc = "returned" => result.kind \in {"DraftSaved", "Error"}
        /\ result.kind = "DraftSaved" => ui.body /\ ui.title

\* a draft of a document that carries tags, a price and a magazine was saved
C9_Witness ==
    /\ req.tool = "save_draft"
    /\ npc = "returned" /\ result.kind = "DraftSaved"
    /\ ui.draftClicks = 1
    /\ req.parsed.tags # <<>>
    /\ req.parsed.price = <<500>>
    /\ req.parsed.magazine # <<>>

\* C10: within one job the submit control is activated at most once, and
\* when neither the URL change nor the success text was observed, a
\* submission-uncertain warning is logged and the job is still reported
\* with the URL of that moment.
C10_SubmitOnceWarnUncertain ==
    /\ ui.submitClicks <= 1
    /\ (npc = "returned" /\ ui.submitClicks = 1 /\ observed = "none"
            /\ result.kind = "Published") =>
          /\ warned
          /\ result.url \in {"publish", "note"}

(***************************************************************************)
(* batch-publish.cjs: main() and publishArticle()                          *)
(***************************************************************************)
\* `for (let attempt = 0; attempt < 20; attempt++)`: the confirmation modal
ModalTries == 20

\* `for (let i = 0; i < 60; i++)`: the completion poll
PollTries == 60

\* article numbers in the leading part of the file names
Nums == 1..MaxNum

\* the names the articles directory can hold: `<n>_<name>` for each number,
\* a second name with the number 1, and a name that begins with no number
FileNames ==
    { <<DigitChars[n + 1], "_", "a">> : n \in Nums } \cup
        { <<"1", "_", "b">>, <<"x", "_", "a">> }

\* `parseInt(file.split('_')[0], 10)`; << >> is NaN
numOf(file) == parseInt(split(file, "_")[1])

\* `numA - numB` as Array.prototype.sort reads it: a NaN result counts as 0
sortCompare(a, b) ==
    IF numOf(a) = << >> \/ numOf(b) = << >> THEN 0
    ELSE numOf(a)[1] - numOf(b)[1]

\* readdirSync().filter().sort(): the names of a directory in an order the
\* sort can leave them in, no two neighbours out of order for the comparator
SortedFileLists ==
    { f \in UNION { [1..n -> FileNames] : n \in 0..MaxFiles } :
        /\ \A a, b \in DOMAIN f : a # b => f[a] # f[b]
        /\ \A a \in DOMAIN f :
              a + 1 \in DOMAIN f => sortCompare(f[a], f[a + 1]) <= 0 }

\* `num < START_NUM || num > END_NUM`: false for NaN
outOfRange(num) == num # << >> /\ (num[1] < START_NUM \/ num[1] > END_NUM)

\* what the steps of publishArticle() leave alone in main()
mainState ==
    <<allFiles, START_NUM, END_NUM, fidx, processedNums, successCount,
      failCount, doc, outcome, bExit>>

InitBatch ==
    /\ bpc = "start"
    /\ allFiles \in SortedFileLists
    /\ START_NUM \in Nums /\ END_NUM \in Nums
    /\ fidx = 1 /\ processedNums = {}
    /\ successCount = 0 /\ failCount = 0
    /\ alive = FALSE /\ doc = [tags |-> FALSE]
    /\ outcome = NoOutcome /\ bExit = "none"
    /\ IdleObs /\ IdleNote /\ IdleMembership /\ IdleParse

\* a statement of publishArticle() throws; the page may be gone with it
bThrow(step, kind) ==
    /\ bpc' = "b_catch"
    /\ failStep' = step
    /\ failKind' = kind
    /\ alive' \in IF kind = "error" THEN BOOLEAN ELSE {TRUE}

\* list the files, launch the browser, open the one page all jobs share
MainStart ==
    /\ bpc = "start"
    /\ \/ /\ alive' = TRUE
          /\ bpc' = "next"
          /\ UNCHANGED bExit
       \/ /\ bExit' = "fatal"
          /\ bpc' = "exit"
          /\ UNCHANGED alive
    /\ UNCHANGED <<allFiles, START_NUM, END_NUM, fidx, processedNums,
                   successCount, failCount, doc, outcome, ovars, nvars,
                   mvars, pvars>>

\* `for (const file of allFiles)`: the range check, the duplicate check,
\* and the start of publishArticle() for a file that passes both
NextFile ==
    /\ bpc = "next"
    /\ fidx <= Len(allFiles)
    /\ LET num == numOf(allFiles[fidx]) IN
          \/ /\ outOfRange(num) \/ num \in processedNums
             /\ fidx' = fidx + 1
             /\ UNCHANGED <<bpc, processedNums, doc, ovars>>
          \/ /\ ~outOfRange(num)
             /\ num \notin processedNums
             /\ processedNums' = processedNums \cup {num}
             /\ doc' \in [tags : BOOLEAN]
             /\ ui' = NoUi /\ observed' = "none" /\ warned' = FALSE
             /\ screenshot' = FALSE
             /\ failStep' = "none" /\ failKind' = "none" /\ tries' = 0
             /\ bpc' = "b_open"
             /\ UNCHANGED fidx
    /\ UNCHANGED <<allFiles, START_NUM, END_NUM, successCount, failCount,
                   alive, outcome, bExit, nvars, mvars, pvars>>

\* goto the editor and wait for the title textarea
OpenEditorB ==
    /\ bpc = "b_open"
    /\ \/ /\ bpc' = "b_title"
          /\ UNCHANGED <<failStep, failKind, alive>>
       \/ bThrow("title", "missing")
       \/ bThrow("open", "error")
    /\ UNCHANGED <<mainState, ui, observed, warned, screenshot, tries, nvars,
                   mvars, pvars>>

\* `await titleInput.fill(title)`
SetTitleB ==
    /\ bpc = "b_title"
    /\ \/ /\ ui' = [ui EXCEPT !.title = TRUE]
          /\ bpc' = "b_body"
          /\ UNCHANGED <<failStep, failKind, alive>>
       \/ /\ bThrow("title", "error")
          /\ UNCHANGED ui
    /\ UNCHANGED <<mainState, observed, warned, screenshot, tries, nvars,
                   mvars, pvars>>

\* wait for the body editor and paste the body
SetBodyB ==
    /\ bpc = "b_body"
    /\ \/ /\ ui' = [ui EXCEPT !.body = TRUE]
          /\ bpc' = "b_proceed"
          /\ UNCHANGED <<failStep, failKind, alive>>
       \/ /\ bThrow("body", "missing")
          /\ UNCHANGED ui
       \/ /\ bThrow("body", "error")
          /\ UNCHANGED ui
    /\ UNCHANGED <<mainState, observed, warned, screenshot, tries, nvars,
                   mvars, pvars>>

\* `await proceedBtn.waitFor({ state: 'visible', timeout: 30000 })`
ProceedFindB ==
    /\ bpc = "b_proceed"
    /\ \/ /\ bpc' = "b_proceed_poll"
          /\ tries' = 0
          /\ UNCHANGED <<failStep, failKind, alive>>
       \/ /\ bThrow("proceed", "missing")
          /\ UNCHANGED tries
    /\ UNCHANGED <<mainState, ui, observed, warned, screenshot, nvars, mvars, pvars>>

\* one iteration of the enable loop: the button is still disabled
ProceedPollB ==
    /\ bpc = "b_proceed_poll"
    /\ tries < ProceedTries
    /\ \/ /\ tries' = tries + 1
          /\ UNCHANGED <<bpc, failStep, failKind, alive>>
       \/ /\ bThrow("proceed", "error")
          /\ UNCHANGED tries
    /\ UNCHANGED <<mainState, ui, observed, warned, screenshot, nvars, mvars, pvars>>

\* `await proceedBtn.click({ force: true })`, then wait for the settings
ProceedClickB ==
    /\ bpc = "b_proceed_poll"
    /\ \/ /\ ui' = [ui EXCEPT !.advanced = TRUE]
          /\ bpc' = "b_tags"
          /\ UNCHANGED <<failStep, failKind, alive>>
       \/ /\ bThrow("proceed", "error")
          /\ UNCHANGED ui
    /\ tries' = 0
    /\ UNCHANGED <<mainState, observed, warned, screenshot, nvars, mvars, pvars>>

\* `if (tags.length > 0)`: the input is used only `if (isVisible())`
AddTagsB ==
    /\ bpc = "b_tags"
    /\ \/ /\ ~doc.tags
          /\ bpc' = "b_paid"
          /\ UNCHANGED <<ui, failStep, failKind, alive>>
       \/ /\ doc.tags
          /\ \/ /\ \E visible \in BOOLEAN :
                      ui' = [ui EXCEPT !.tags = visible]
                /\ bpc' = "b_paid"
                /\ UNCHANGED <<failStep, failKind, alive>>
             \/ /\ bThrow("tags", "error")
                /\ UNCHANGED ui
    /\ UNCHANGED <<mainState, observed, warned, screenshot, tries, nvars,
                   mvars, pvars>>

\* `if (await paidLabel.isVisible())`: click it and look for the price input
SetPaidB ==
    /\ bpc = "b_paid"
    /\ \/ /\ \E applied \in {"no", "toggled", "priced"} :
                ui' = [ui EXCEPT !.paid = applied]
          /\ bpc' = "b_area"
          /\ UNCHANGED <<failStep, failKind, alive>>
       \/ /\ bThrow("paid", "error")
          /\ UNCHANGED ui
    /\ UNCHANGED <<mainState, observed, warned, screenshot, tries, nvars,
                   mvars, pvars>>

\* the paid-area view when its button shows, then
\* `await publishBtn.waitFor({ state: 'visible', timeout: 30000 })`
SubmitFindB ==
    /\ bpc = "b_area"
    /\ \/ /\ bpc' = "b_submit_poll"
          /\ tries' = 0
          /\ UNCHANGED <<failStep, failKind, alive>>
       \/ /\ bThrow("submit", "missing")
          /\ UNCHANGED tries
       \/ /\ bThrow("paidarea", "error")
          /\ UNCHANGED tries
    /\ UNCHANGED <<mainState, ui, observed, warned, screenshot, nvars, mvars, pvars>>

\* a loop condition that lets one iteration too many through
mayIterateOnceMore(max) == tries <= max

\* the loop conditions `i < 30`, `attempt < 20` and `i < 60`
mayIterate(max) == tries < max

\* one iteration of the enable loop: the button is still disabled
SubmitPollB ==
    /\ bpc = "b_submit_poll"
    /\ mayIterate(EnableTries)
    /\ \/ /\ tries' = tries + 1
          /\ UNCHANGED <<bpc, failStep, failKind, alive>>
       \/ /\ bThrow("submit", "error")
          /\ UNCHANGED tries
    /\ UNCHANGED <<mainState, ui, observed, warned, screenshot, nvars, mvars, pvars>>

\* `await publishBtn.click({ force: true })`: after `break` or thirty tries
SubmitClickB ==
    /\ bpc = "b_submit_poll"
    /\ \/ /\ ui' = [ui EXCEPT !.submitClicks = @ + 1]
          /\ bpc' = "b_modal"
          /\ UNCHANGED <<failStep, failKind, alive>>
       \/ /\ bThrow("submit", "error")
          /\ UNCHANGED ui
    /\ tries' = 0
    /\ UNCHANGED <<mainState, observed, warned, screenshot, nvars, mvars, pvars>>

\* one attempt of the modal loop: no OK button is visible yet
ModalPoll ==
    /\ bpc = "b_modal"
    /\ mayIterate(ModalTries)
    /\ \/ /\ tries' = tries + 1
          /\ UNCHANGED <<bpc, failStep, failKind, alive>>
       \/ /\ bThrow("modal", "error")
          /\ UNCHANGED tries
    /\ UNCHANGED <<mainState, ui, observed, warned, screenshot, nvars, mvars, pvars>>

\* an OK button of the confirmation modal is visible: click it and `break`
ModalClick ==
    /\ bpc = "b_modal"
    /\ mayIterate(ModalTries)
    /\ \/ /\ ui' = [ui EXCEPT !.modal = TRUE]
          /\ bpc' = "b_complete"
          /\ UNCHANGED <<failStep, failKind, alive>>
       \/ /\ bThrow("modal", "error")
          /\ UNCHANGED ui
    /\ tries' = 0
    /\ UNCHANGED <<mainState, observed, warned, screenshot, nvars, mvars, pvars>>

\* `if (!modalClicked)`: twenty attempts found no modal; logged, go on
ModalGiveUp ==
    /\ bpc = "b_modal"
    /\ tries = ModalTries
    /\ tries' = 0
    /\ bpc' = "b_complete"
    /\ UNCHANGED <<mainState, alive, ui, observed, warned, screenshot,
                   failStep,
                   failKind, nvars, mvars, pvars>>

\* one iteration of the completion poll: still on /publish, no success text
CompletionPoll ==
    /\ bpc = "b_complete"
    /\ mayIterate(PollTries)
    /\ \/ /\ tries' = tries + 1
          /\ UNCHANGED <<bpc, failStep, failKind, alive>>
       \/ /\ bThrow("complete", "error")
          /\ UNCHANGED tries
    /\ UNCHANGED <<mainState, ui, observed, warned, screenshot, nvars, mvars, pvars>>

\* the URL left /publish, or the success text is visible: `published = true`
CompletionSeen ==
    /\ bpc = "b_complete"
    /\ mayIterate(PollTries)
    /\ \/ /\ observed' \in {"url", "text"}
          /\ bpc' = "b_return"
          /\ UNCHANGED <<failStep, failKind, alive>>
       \/ /\ bThrow("complete", "error")
          /\ UNCHANGED observed
    /\ tries' = 0
    /\ UNCHANGED <<mainState, ui, warned, screenshot, nvars, mvars, pvars>>

\* `if (!published)`: sixty polls saw neither; the warning is logged
CompletionGiveUp ==
    /\ bpc = "b_complete"
    /\ tries = PollTries
    /\ warned' = TRUE
    /\ tries' = 0
    /\ bpc' = "b_return"
    /\ UNCHANGED <<mainState, alive, ui, observed, screenshot, failStep,
                   failKind, nvars, mvars, pvars>>

\* `return finalUrl`, and in main() `successCount++`
ReturnUrl ==
    /\ bpc = "b_return"
    /\ successCount' = successCount + 1
    /\ outcome' = outcome @@ (numOf(allFiles[fidx]) :> "ok")
    /\ bpc' = "pace"
    /\ UNCHANGED <<allFiles, START_NUM, END_NUM, fidx, processedNums,
                   failCount, doc, bExit, alive, ovars, nvars, mvars, pvars>>

\* the controls whose absence publishArticle() does not tolerate
RequiredControls == {"title", "body", "proceed", "submit"}

\* a catch block that lets the error escape main()
afterCatchAbort ==
    /\ bpc' = "exit"
    /\ bExit' = "fatal"

\* after the catch block the loop body goes on to the pacing wait
afterCatch ==
    /\ bpc' = "pace"
    /\ UNCHANGED bExit

\* `await page.screenshot(...).catch(() => {})`: taken, or its failure is
\* swallowed; a page that is gone gives none
errorScreenshot == IF alive THEN BOOLEAN ELSE {FALSE}

\* main()'s `catch (e)`: count the failure, log it, try a screenshot
CatchB ==
    /\ bpc = "b_catch"
    /\ failCount' = failCount + 1
    /\ outcome' = outcome @@
          (numOf(allFiles[fidx]) :>
              IF failKind = "missing" /\ failStep \in RequiredControls
              THEN "failed_required" ELSE "failed")
    /\ screenshot' \in errorScreenshot
    /\ afterCatch
    /\ UNCHANGED <<allFiles, START_NUM, END_NUM, fidx, processedNums,
                   successCount, doc, alive, ui, observed, warned, failStep,
                   failKind, tries, nvars, mvars, pvars>>

\* `await page.waitForTimeout(10000)`: outside the try, so a closed page
\* makes main() reject
Pace ==
    /\ bpc = "pace"
    /\ \/ /\ alive
          /\ fidx' = fidx + 1
          /\ bpc' = "next"
          /\ UNCHANGED <<alive, bExit>>
       \/ /\ alive' = FALSE
          /\ bExit' = "fatal"
          /\ bpc' = "exit"
          /\ UNCHANGED fidx
    /\ UNCHANGED <<allFiles, START_NUM, END_NUM, processedNums,
                   successCount, failCount, doc, outcome, ovars, nvars,
                   mvars, pvars>>

\* after the loop: `await browser.close()` and the summary
CloseBrowser ==
    /\ bpc = "next"
    /\ fidx > Len(allFiles)
    /\ alive' = FALSE
    /\ bExit' = "done"
    /\ bpc' = "exit"
    /\ UNCHANGED <<allFiles, START_NUM, END_NUM, fidx, processedNums,
                   successCount, failCount, doc, outcome, ovars, nvars,
                   mvars, pvars>>

NextBatch ==
    \/ MainStart
    \/ NextFile
    \/ OpenEditorB
    \/ SetTitleB
    \/ SetBodyB
    \/ ProceedFindB
    \/ ProceedPollB
    \/ ProceedClickB
    \/ AddTagsB
    \/ SetPaidB
    \/ SubmitFindB
    \/ SubmitPollB
    \/ SubmitClickB
    \/ ModalPoll
    \/ ModalClick
    \/ ModalGiveUp
    \/ CompletionPoll
    \/ CompletionSeen
    \/ CompletionGiveUp
    \/ ReturnUrl
    \/ CatchB
    \/ Pace
    \/ CloseBrowser

SpecBatch == InitBatch /\ [][NextBatch]_vars

(***************************************************************************)
(* Termination of the two runners.  main() is one sequential async         *)
(* function: every await resolves, rejects or times out, so the next step  *)
(* of a run that can go on is eventually taken.                            *)
(***************************************************************************)
\* add-membership-benefit.cjs on any job list, or batch-publish.cjs on a
\* directory of at most one file
InitLive == Init \/ (InitBatch /\ Len(allFiles) <= 1)

NextLive == Next \/ NextBatch

SpecLive == InitLive /\ [][NextLive]_vars /\ WF_vars(NextLive)

(***************************************************************************)
(* Claims about batch-publish.cjs                                          *)
(***************************************************************************)
requiredMiss == failKind = "missing" /\ failStep \in RequiredControls

\* a number within START_NUM..END_NUM
inRange(n) == n # << >> /\ START_NUM <= n[1] /\ n[1] <= END_NUM

\* C8: when a required control (title field, body editor, proceed or submit
\* button) cannot be found, the job fails without the submit control having
\* been activated, the runner counts it as failed, and the batch goes on:
\* the page stays usable, only a dead page ends the batch early, and a batch
\* that ends normally has taken up every number in the range.
C8_RequiredMissFailsJobOnly ==
    /\ (bpc \in {"b_catch", "pace"} /\ requiredMiss) =>
          /\ ui.submitClicks = 0
          /\ alive
    /\ (bpc = "pace" /\ requiredMiss) =>
          /\ outcome[numOf(allFiles[fidx])] = "failed_required"
          /\ failCount >= 1
    /\ failCount = Cardinality({n \in DOMAIN outcome : outcome[n] # "ok"})
    /\ successCount = Cardinality({n \in DOMAIN outcome : outcome[n] = "ok"})
    /\ (bExit = "fatal" /\ processedNums # {}) => ~alive
    /\ bExit = "done" =>
          \A k \in DOMAIN allFiles :
             inRange(numOf(allFiles[k])) =>
                numOf(allFiles[k]) \in DOMAIN outcome

\* the job after one that failed on a missing required control has started
C8_Witness ==
    /\ bpc = "b_open"
    /\ failCount = 1
    /\ \E n \in DOMAIN outcome :
          outcome[n] = "failed_required" /\ n # numOf(allFiles[fidx])

(***************************************************************************)
(* Claims about results and screenshots                                    *)
(***************************************************************************)
\* C11: every job that ends as failed or as submission-uncertain returns a
\* structured result to the caller and has a diagnostic screenshot captured
\* for it.
C11_FailureIsStructuredWithScreenshot ==
    npc = "returned" =>
        /\ result.kind \in {"Error", "DraftSaved", "Published"}
        /\ (result.kind = "Error" /\ failStep # "none") => screenshot
        /\ (result.kind = "Published" /\ observed = "none") => screenshot

\* C12: the paid, magazine and cross-post fields of a publish result say
\* what was applied in the page, not what was requested: a setting whose
\* step was skipped or failed is not reported as applied, and isPaid with a
\* price is reported only when the price was entered.
C12_ResultReportsApplied ==
    (npc = "returned" /\ result.kind = "Published") =>
        /\ result.isPaid => ui.paid = "priced"
        /\ result.price # <<>> => ui.paid = "priced"
        /\ result.magazine # <<>> => ui.magazine
        /\ result.postedToTwitter => ui.twitter

\* the override when one is supplied, else the front-matter value
overrideOr(override, parsedValue) ==
    IF override # <<>> THEN override ELSE parsedValue

\* C13: for price, magazine and cross-post a job uses the caller's override
\* whenever one is supplied, an explicit false for cross-post included, and
\* the front-matter value only when no override is supplied.
C13_OverridesWin ==
    npc \notin {"off", "call"} =>
        /\ price = overrideOr(req.price, req.parsed.price)
        /\ magazine = overrideOr(req.magazine, req.parsed.magazine)
        /\ postToTwitter =
              overrideOr(overrideOr(req.postToTwitter,
                                    req.parsed.postToTwitter), <<FALSE>>)[1]
        /\ req.postToTwitter = <<FALSE>> => ~ui.twitter
        /\ (npc = "returned" /\ result.kind = "Published") =>
              /\ result.price \in {<<>>, overrideOr(req.price,
                                                     req.parsed.price)}
              /\ result.magazine \in
                    {<<>>, overrideOr(req.magazine, req.parsed.magazine)}
              /\ req.postToTwitter = <<FALSE>> => ~result.postedToTwitter

\* a published job whose three overrides all differ from its front matter
C13_Witness ==
    /\ npc = "returned" /\ result.kind = "Published"
    /\ req.price = <<300>> /\ req.parsed.price = <<500>>
    /\ result.price = <<300>> /\ ui.paid = "priced"
    /\ req.magazine = <<"M1">> /\ req.parsed.magazine = <<"M2">>
    /\ result.magazine = <<"M1">>
    /\ req.postToTwitter = <<FALSE>> /\ req.parsed.postToTwitter = <<TRUE>>
    /\ ~result.postedToTwitter

(***************************************************************************)
(* parseMarkdown() of src/index.ts, batch-publish.cjs and                  *)
(* publish_single_article.cjs.  The three loops are modelled one line per  *)
(* step; `ps` holds the local variables of the running parser.             *)
(***************************************************************************)
\* `.substring(0, 30)`
SearchTextLen == 30

\* the local variables of parseMarkdown() in src/index.ts before the loop
startTs ==
    [title |-> << >>, body |-> << >>, tags |-> << >>, price |-> << >>,
     paidLineIndex |-> << >>, magazine |-> << >>, postToTwitter |-> << >>,
     inFrontMatter |-> FALSE, frontMatterEnded |-> FALSE,
     inTagsArray |-> FALSE, paragraphCount |-> 0]

\* the local variables of parseMarkdown() in batch-publish.cjs
startBatch ==
    [title |-> << >>, body |-> << >>, tags |-> << >>, price |-> << >>,
     inFrontMatter |-> FALSE, frontMatterEnded |-> FALSE,
     inTagsArray |-> FALSE, paidLinePosition |-> -1, paragraphCount |-> 0]

\* the local variables of parseMarkdown() in publish_single_article.cjs
startSingle ==
    [title |-> << >>, body |-> << >>, tags |-> << >>, price |-> << >>,
     inFrontMatter |-> FALSE, frontMatterEnded |-> FALSE,
     inTagsArray |-> FALSE, paidLineParagraphIndex |-> -1,
     currentParagraphIndex |-> 0, lastLineWasEmpty |-> TRUE,
     lastParagraphText |-> << >>, currentParagraphText |-> << >>]

\* `if (line.trim() === '---') { if (!frontMatterEnded) {...; continue} }`
isDelimiter(s, line) == trim(line) = <<"-", "-", "-">> /\ ~s.frontMatterEnded

\* the body of that `if`: toggle inFrontMatter, close the block
toggleFrontMatter(s) ==
    IF s.inFrontMatter
    THEN [s EXCEPT !.inFrontMatter = FALSE, !.frontMatterEnded = TRUE,
                   !.inTagsArray = FALSE]
    ELSE [s EXCEPT !.inFrontMatter = TRUE]

\* the bracketed list split without trimming its items
bracketTagsUntrimmed(tagsStr) == split(sliceInner(tagsStr), ",")

\* `tagsStr.slice(1, -1).split(',').map(t => t.trim().replace(...))`
bracketTags(tagsStr) ==
    LET parts == split(sliceInner(tagsStr), ",") IN
    [k \in DOMAIN parts |-> stripQuotes(trim(parts[k]))]

\* `line.trim().substring(1).trim().replace(...)` of a `- tag` line
dashTag(line) == stripQuotes(trim(substring(trim(line), 1)))

\* `!isNaN(parsedPrice) && parsedPrice >= 100 && parsedPrice <= 50000`
priceInRange(p) == p # << >> /\ p[1] >= PriceMin /\ p[1] <= PriceMax

\* `const twitterVal = line.split(':')[1].trim().toLowerCase()` and the
\* comparison with 'true', 'yes', '1'
twitterFlag(line) ==
    toLowerCase(trim(split(line, ":")[2])) \in {<<"t", "r", "u", "e">>, <<"y", "e", "s">>, <<"1">>}

\* the `if (inFrontMatter) {...; continue}` block of src/index.ts
frontMatterLineTs(s, line) ==
    IF startsWith(line, <<"t", "i", "t", "l", "e", ":">>)
    THEN [s EXCEPT !.title = stripQuotes(trim(substring(line, 6))),
                   !.inTagsArray = FALSE]
    ELSE IF startsWith(line, <<"p", "r", "i", "c", "e", ":">>)
    THEN LET parsedPrice == parseInt(trim(substring(line, 6))) IN
         [s EXCEPT !.price = IF priceInRange(parsedPrice)
                             THEN parsedPrice ELSE @,
                   !.inTagsArray = FALSE]
    ELSE IF startsWith(line, <<"m", "a", "g", "a", "z", "i", "n", "e", ":">>)
    THEN [s EXCEPT !.magazine = <<stripQuotes(trim(substring(line, 9)))>>,
                   !.inTagsArray = FALSE]
    ELSE IF \/ startsWith(line, <<"t", "w", "i", "t", "t", "e", "r", ":">>)
            \/ startsWith(line, <<"x", ":">>)
            \/ startsWith(line, <<"p", "o", "s", "t", "_", "t", "o", "_", "t", "w", "i", "t", "t", "e", "r", ":">>)
    THEN [s EXCEPT !.postToTwitter = <<twitterFlag(line)>>,
                   !.inTagsArray = FALSE]
    ELSE IF startsWith(line, <<"t", "a", "g", "s", ":">>)
    THEN LET tagsStr == trim(substring(line, 5)) IN
         IF startsWith(tagsStr, <<"[">>) /\ endsWith(tagsStr, <<"]">>)
         THEN [s EXCEPT !.tags = @ \o bracketTags(tagsStr),
                        !.inTagsArray = FALSE]
         ELSE IF tagsStr = << >>
         THEN [s EXCEPT !.inTagsArray = TRUE]
         ELSE [s EXCEPT !.tags = Append(@, stripQuotes(tagsStr)),
                        !.inTagsArray = FALSE]
    ELSE IF s.inTagsArray /\ startsWith(trim(line), <<"-">>)
    THEN IF dashTag(line) # << >>
         THEN [s EXCEPT !.tags = Append(@, dashTag(line))]
         ELSE s
    ELSE IF startsWithKey(line)
    THEN [s EXCEPT !.inTagsArray = FALSE]
    ELSE s

\* the `if (inFrontMatter) {...; continue}` block of batch-publish.cjs and
\* publish_single_article.cjs (the same text in both)
frontMatterLineCjs(s, line) ==
    IF startsWith(line, <<"t", "i", "t", "l", "e", ":">>)
    THEN [s EXCEPT !.title = stripQuotes(trim(substring(line, 6))),
                   !.inTagsArray = FALSE]
    ELSE IF startsWith(line, <<"p", "r", "i", "c", "e", ":">>)
    THEN LET p == parseInt(trim(substring(line, 6))) IN
         [s EXCEPT !.price = IF p # << >> /\ p[1] >= PriceMin THEN p ELSE @,
                   !.inTagsArray = FALSE]
    ELSE IF startsWith(line, <<"t", "a", "g", "s", ":">>)
    THEN LET tagsStr == trim(substring(line, 5)) IN
         IF startsWith(tagsStr, <<"[">>) /\ endsWith(tagsStr, <<"]">>)
         THEN [s EXCEPT !.tags = @ \o bracketTags(tagsStr),
                        !.inTagsArray = FALSE]
         ELSE IF tagsStr = << >>
         THEN [s EXCEPT !.inTagsArray = TRUE]
         ELSE s
    ELSE IF s.inTagsArray /\ startsWith(trim(line), <<"-">>)
    THEN IF dashTag(line) # << >>
         THEN [s EXCEPT !.tags = Append(@, dashTag(line))]
         ELSE s
    ELSE IF startsWithKey(line)
    THEN [s EXCEPT !.inTagsArray = FALSE]
    ELSE s

\* `if (!title && line.startsWith('# '))`
isTitleHeading(s, line) == s.title = << >> /\ startsWith(line, <<"#", " ">>)

\* `title = line.substring(2).trim()`
headingTitle(s, line) == [s EXCEPT !.title = trim(substring(line, 2))]

\* the two characters of 有料, written by their code points
YuryoChars == <<"U+6709", "U+6599">>

\* `line.trim().match(/^<!--\s*(paid|有料)\s*-->$/i)`
isPaidMarkerTs(line) ==
    LET t == trim(line) IN
    /\ Len(t) >= 7
    /\ startsWith(t, <<"<", "!", "-", "-">>)
    /\ endsWith(t, <<"-", "-", ">">>)
    /\ toLowerCase(trim(SubSeq(t, 5, Len(t) - 3))) \in {<<"p", "a", "i", "d">>, YuryoChars}

\* `line.trim() === '<!-- paid -->'`
isPaidMarkerCjs(line) ==
    trim(line) =
        <<"<", "!", "-", "-", " ", "p", "a", "i", "d", " ", "-", "-", ">">>

\* `if (frontMatterEnded || !line.trim().startsWith('---'))`
isBodyLine(s, line) ==
    s.frontMatterEnded \/ ~startsWith(trim(line), <<"-", "-", "-">>)

\* one iteration of the loop of parseMarkdown() in src/index.ts
stepTs(s, line) ==
    IF isDelimiter(s, line) THEN toggleFrontMatter(s)
    ELSE IF s.inFrontMatter THEN frontMatterLineTs(s, line)
    ELSE IF isTitleHeading(s, line) THEN headingTitle(s, line)
    ELSE IF isPaidMarkerTs(line)
    THEN [s EXCEPT !.paidLineIndex = <<s.paragraphCount>>]
    ELSE IF isBodyLine(s, line)
    THEN LET b == s.body \o line \o <<"\n">> IN
         [s EXCEPT !.body = b,
                   !.paragraphCount =
                       IF trim(line) = << >> /\ trim(b) # << >>
                       THEN @ + 1 ELSE @]
    ELSE s

\* one iteration of the loop of parseMarkdown() in batch-publish.cjs
stepBatch(s, line) ==
    IF isDelimiter(s, line) THEN toggleFrontMatter(s)
    ELSE IF s.inFrontMatter THEN frontMatterLineCjs(s, line)
    ELSE IF isTitleHeading(s, line) THEN headingTitle(s, line)
    ELSE IF isBodyLine(s, line)
    THEN IF isPaidMarkerCjs(line)
         THEN [s EXCEPT !.paidLinePosition = s.paragraphCount]
         ELSE [s EXCEPT !.body = @ \o line \o <<"\n">>,
                        !.paragraphCount =
                            IF trim(line) # << >> THEN @ + 1 ELSE @]
    ELSE s

\* one iteration of the loop of parseMarkdown() in
\* publish_single_article.cjs
stepSingle(s, line) ==
    IF isDelimiter(s, line) THEN toggleFrontMatter(s)
    ELSE IF s.inFrontMatter THEN frontMatterLineCjs(s, line)
    ELSE IF isTitleHeading(s, line) THEN headingTitle(s, line)
    ELSE IF isPaidMarkerCjs(line)
    THEN [s EXCEPT !.paidLineParagraphIndex = s.currentParagraphIndex,
                   !.lastParagraphText = trim(s.currentParagraphText)]
    ELSE IF isBodyLine(s, line)
    THEN LET blank == trim(line) = << >> IN
         [s EXCEPT !.body = @ \o line \o <<"\n">>,
                   !.currentParagraphIndex =
                       IF ~blank /\ s.lastLineWasEmpty THEN @ + 1 ELSE @,
                   !.currentParagraphText =
                       IF ~blank /\ s.lastLineWasEmpty THEN line
                       ELSE IF ~blank THEN @ \o <<" ">> \o line
                       ELSE @,
                   !.lastLineWasEmpty = blank]
    ELSE s

\* `title: title || 'Untitled'`
titleOrUntitled(t) == IF t = << >> THEN <<"U", "n", "t", "i", "t", "l", "e", "d">> ELSE t

\* the object returned by parseMarkdown() in src/index.ts
returnTs(s) ==
    [title |-> titleOrUntitled(s.title), body |-> trim(s.body),
     tags |-> filterBoolean(s.tags), price |-> s.price,
     paidLineIndex |-> s.paidLineIndex, magazine |-> s.magazine,
     postToTwitter |-> s.postToTwitter]

\* the object returned by parseMarkdown() in batch-publish.cjs
returnBatch(s) ==
    [title |-> titleOrUntitled(s.title), body |-> trim(s.body),
     tags |-> filterBoolean(s.tags), price |-> s.price,
     paidLinePosition |-> s.paidLinePosition,
     totalParagraphs |-> s.paragraphCount]

\* the object returned by parseMarkdown() in publish_single_article.cjs
returnSingle(s) ==
    [title |-> titleOrUntitled(s.title), body |-> trim(s.body),
     tags |-> filterBoolean(s.tags), price |-> s.price,
     hasPaidLine |-> s.paidLineParagraphIndex > 0,
     paidLineParagraphIndex |-> s.paidLineParagraphIndex,
     paidLineSearchText |-> substringTo(s.lastParagraphText, SearchTextLen)]

(***************************************************************************)
(* The scans for image references: extractImages() of src/index.ts and the *)
(* imagePattern loop of publish_single_article.cjs                         *)
(***************************************************************************)
\* the first index from `from` on where s holds the character c, 0 if none
indexOf(s, c, from) ==
    IF \E k \in from..Len(s) : s[k] = c
    THEN CHOOSE k \in from..Len(s) :
            s[k] = c /\ \A j \in from..(k - 1) : s[j] # c
    ELSE 0

\* /!\[([^\]]*)\]\(([^)]+)\)/ tried at position p: << >> when it does not
\* match there, else the groups and the index of the closing parenthesis
matchImageAt(s, p) ==
    IF p + 1 <= Len(s) /\ s[p] = "!" /\ s[p + 1] = "["
    THEN LET rb == indexOf(s, "]", p + 2) IN
         IF rb # 0 /\ rb + 1 <= Len(s) /\ s[rb + 1] = "("
         THEN LET rp == indexOf(s, ")", rb + 2) IN
              IF rp > rb + 2
              THEN << [alt |-> SubSeq(s, p + 2, rb - 1),
                       path |-> SubSeq(s, rb + 2, rp - 1), end |-> rp] >>
              ELSE << >>
         ELSE << >>
    ELSE << >>

\* `!imagePath.startsWith('http://') && !imagePath.startsWith('https://')`
isLocalPath(imagePath) ==
    /\ ~startsWith(imagePath, <<"h", "t", "t", "p", ":", "/", "/">>)
    /\ ~startsWith(imagePath, <<"h", "t", "t", "p", "s", ":", "/", "/">>)

\* path.resolve(baseDir, imagePath) of a relative path, as the path below
\* baseDir: a leading `./` is dropped
resolvePath(imagePath) ==
    IF startsWith(imagePath, <<".", "/">>) THEN substring(imagePath, 2)
    ELSE imagePath

\* fs.existsSync(absolutePath)
fileExists(absolutePath) == absolutePath \in existing

\* extractImages(markdown, baseDir): the `while ((match = imageRegex.exec(
\* markdown)) !== null)` loop from position p on
RECURSIVE extractImages(_, _)
extractImages(markdown, p) ==
    IF p > Len(markdown) THEN << >>
    ELSE LET m == matchImageAt(markdown, p) IN
         IF m = << >> THEN extractImages(markdown, p + 1)
         ELSE (IF isLocalPath(m[1].path) /\ fileExists(resolvePath(m[1].path))
               THEN << [alt |-> IF m[1].alt = << >> THEN <<"i", "m", "a", "g", "e">>
                                ELSE m[1].alt,
                        localPath |-> m[1].path,
                        absolutePath |-> resolvePath(m[1].path),
                        placeholder |-> SubSeq(markdown, p, m[1].end)] >>
               ELSE << >>)
              \o extractImages(markdown, m[1].end + 1)

\* the extensions of imagePattern
ImageExtensions == { <<"p", "n", "g">>, <<"j", "p", "g">>, <<"j", "p", "e", "g">>, <<"g", "i", "f">>, <<"w", "e", "b", "p">> }

\* `\.\/(images\/[\w-]+\.(png|jpg|jpeg|gif|webp))` against the whole text
\* between the parentheses, case-insensitively
isImagesDirPath(inner) ==
    /\ startsWith(toLowerCase(inner), <<".", "/", "i", "m", "a", "g", "e", "s", "/">>)
    /\ LET rest == substring(inner, 9)
           dot == indexOf(rest, ".", 1) IN
       /\ dot > 1
       /\ \A k \in 1..(dot - 1) : rest[k] \in WordChars \cup {"-"}
       /\ toLowerCase(substring(rest, dot)) \in ImageExtensions

\* imagePattern tried at position p: `.*?` stops at the first `](` on the
\* line that is followed by a path of the images directory
matchImagesDirAt(s, p) ==
    IF p + 1 <= Len(s) /\ s[p] = "!" /\ s[p + 1] = "["
    THEN LET ends == { rb \in (p + 2)..(Len(s) - 1) :
                        /\ s[rb] = "]" /\ s[rb + 1] = "("
                        /\ \A j \in (p + 2)..(rb - 1) : s[j] # "\n"
                        /\ indexOf(s, ")", rb + 2) # 0
                        /\ isImagesDirPath(
                              SubSeq(s, rb + 2, indexOf(s, ")", rb + 2) - 1)) }
         IN IF ends = {} THEN << >>
            ELSE LET rb == CHOOSE e \in ends : \A f \in ends : e <= f
                     rp == indexOf(s, ")", rb + 2) IN
                 << [path |-> SubSeq(s, rb + 4, rp - 1), end |-> rp] >>
    ELSE << >>

\* the `while ((match = imagePattern.exec(body)) !== null)` loop of
\* publishArticle() from position p on
RECURSIVE imagesToInsert(_, _)
imagesToInsert(body, p) ==
    IF p > Len(body) THEN << >>
    ELSE LET m == matchImagesDirAt(body, p) IN
         IF m = << >> THEN imagesToInsert(body, p + 1)
         ELSE (IF fileExists(m[1].path)
               THEN << [placeholder |-> SubSeq(body, p, m[1].end),
                        absolutePath |-> m[1].path] >>
               ELSE << >>)
              \o imagesToInsert(body, m[1].end + 1)

(***************************************************************************)
(* The placement of the paywall line in the paid-area view                 *)
(* (publish_single_article.cjs and the publishArticle() of the batch       *)
(* publisher with images)                                                  *)
(***************************************************************************)
\* `paidLineSearchText.length > 5`
MinSearchLen == 5

\* text.includes(sub)
includes(text, sub) ==
    \E k \in 0..(Len(text) - Len(sub)) : SubSeq(text, k + 1, k + Len(sub)) = sub

\* `if (paidLineSearchText && paidLineSearchText.length > 5)`
searches(searchText) == searchText # << >> /\ Len(searchText) > MinSearchLen

\* the loop over `paragraphs`: the 0-based index of the first paragraph
\* whose text is not empty and includes the search text, else -1
targetParagraphIndex(paragraphs, searchText) ==
    LET hits == { k \in DOMAIN paragraphs :
                    /\ paragraphs[k] # << >>
                    /\ includes(paragraphs[k], searchText) }
    IN  IF searches(searchText) /\ hits # {}
        THEN (CHOOSE k \in hits : \A j \in hits : k <= j) - 1
        ELSE -1

\* `targetParagraphIndex >= 0 ? targetParagraphIndex
\*                            : (paidLineParagraphIndex - 1)`
buttonIndex(target, paidLineParagraphIndex) ==
    IF target >= 0 THEN target ELSE paidLineParagraphIndex - 1

\* `if (buttonIndex >= 0 && buttonIndex < btnCount)` click the button
clickedButtons(index, btnCount) ==
    IF index >= 0 /\ index < btnCount THEN <<index>> ELSE << >>

(***************************************************************************)
(* The parser as a state machine: one call of parseMarkdown(content), and  *)
(* the scan for image references its caller runs on the returned body      *)
(***************************************************************************)
\* the lines documents are made of
Vocabulary ==
    { <<"-", "-", "-">>, << >>, <<"#", " ", "T">>, <<"a", "b">>, <<"c", "d">>,
      <<"<", "!", "-", "-", " ", "p", "a", "i", "d", " ", "-", "-", ">">>,
      <<" ", "<", "!", "-", "-", " ", "P", "A", "I", "D", " ", "-", "-", ">",
         " ">>,
      <<"p", "r", "i", "c", "e", ":", " ", "5", "0", "0", "0", "1">> }

RECURSIVE DocsOfLength(_)
DocsOfLength(n) ==
    IF n = 0 THEN { << >> }
    ELSE { Append(d, l) : d \in DocsOfLength(n - 1), l \in Vocabulary }

\* the example document of the specification
ExampleDoc ==
    << <<"-", "-", "-">>, <<"t", "i", "t", "l", "e", ":", " ", "D", "e", "m", "o">>, <<"p", "r", "i", "c", "e", ":", " ", "3", "0", "0">>,
       <<"t", "a", "g", "s", ":", " ", "[", "a", ",", " ", "b", "]">>, <<"-", "-", "-">>, <<"I", "n", "t", "r", "o", ".">>, << >>,
       <<"<", "!", "-", "-", " ", "p", "a", "i", "d", " ", "-", "-", ">">>,
       << >>, <<"S", "e", "c", "r", "e", "t", ".">> >>

\* a paragraph longer than the search text, followed by the marker
LongParagraphDoc ==
    << <<"0", "1", "2", "3", "4", "5", "6", "7", "8", "9", "a", "b", "c", "d", "e", "f", "g", "h", "i", "j", "0", "1", "2", "3", "4", "5", "6", "7", "8", "9", "x", "y">>,
       << >>,
       <<"<", "!", "-", "-", " ", "p", "a", "i", "d", " ", "-", "-", ">">>,
       << >>, <<"a", "b">> >>

\* front-matter prices at and next to the limits
PriceDocs ==
    { << <<"-", "-", "-">>, p, <<"-", "-", "-">>, <<"a", "b">> >> :
        p \in { <<"p", "r", "i", "c", "e", ":", " ", "9", "9">>, <<"p", "r", "i", "c", "e", ":", " ", "1", "0", "0">>,
                <<"p", "r", "i", "c", "e", ":", " ", "5", "0", "0", "0", "0">> } }

\* the lines front matters are made of
FmVocabulary ==
    { <<"t", "i", "t", "l", "e", ":", " ", "A">>,
      <<"t", "a", "g", "s", ":", " ", "[", "x", ",", " ", ",", "'", "y", "'", "]">>,
      <<"t", "a", "g", "s", ":">>,
      <<"-", " ", "x">>,
      <<" ", "-", " ", "\"", "\"">>,
      <<"k", ":", " ", "v">>,
      <<"t", "a", "g", "s", ":", " ", "z">> }

RECURSIVE FmLinesOfLength(_)
FmLinesOfLength(n) ==
    IF n = 0 THEN { << >> }
    ELSE { Append(d, l) : d \in FmLinesOfLength(n - 1), l \in FmVocabulary }

\* a front matter that is closed before a heading, and one left open
FrontMatterDocs ==
    { << <<"-", "-", "-">> >> \o f \o t :
        f \in UNION { FmLinesOfLength(n) : n \in 0..MaxFmLines },
        t \in { << <<"-", "-", "-">>, <<"#", " ", "T">> >>,
                 << <<"#", " ", "T">> >> } }

\* the lines of documents with image references: a file next to the
\* document, a URL, a file of the images directory, and plain text
ImageVocabulary ==
    { <<"!", "[", "a", "]", "(", "p", ".", "p", "n", "g", ")">>,
      <<"!", "[", "b", "]", "(", "h", "t", "t", "p", "s", ":", "/", "/", "h", "/", "q", ".", "p", "n", "g", ")">>,
      <<"!", "[", "]", "(", ".", "/", "i", "m", "a", "g", "e", "s", "/", "i", "-", "1", ".", "p", "n", "g", ")">>,
      <<"a", "b">> }

\* the files the image references of ImageVocabulary can resolve to
ImagePaths == { <<"p", ".", "p", "n", "g">>, <<"i", "m", "a", "g", "e", "s", "/", "i", "-", "1", ".", "p", "n", "g">> }

RECURSIVE ImageDocsOfLength(_)
ImageDocsOfLength(n) ==
    IF n = 0 THEN { << >> }
    ELSE { Append(d, l) : d \in ImageDocsOfLength(n - 1),
                          l \in ImageVocabulary }

ImageDocs == UNION { ImageDocsOfLength(n) : n \in 1..MaxImageLines }

\* documents as lists of lines; the content is their join with '\n'
Docs ==
    UNION { DocsOfLength(n) : n \in 0..MaxLines }
        \cup {ExampleDoc, LongParagraphDoc} \cup PriceDocs
        \cup FrontMatterDocs \cup ImageDocs

InitParse ==
    /\ ppc = "start"
    /\ parser \in {"ts", "batch", "single"}
    /\ content \in { joinLines(d) : d \in Docs }
    /\ existing \in IF content \in { joinLines(d) : d \in ImageDocs }
                     THEN SUBSET ImagePaths ELSE { {} }
    /\ images = << >> /\ paidArea = NoPaidArea
    /\ files = << >> /\ imageFiles = << >>
    /\ finder = "none" /\ dom = << >> /\ located = << >>
    /\ lines = << >> /\ li = 0 /\ ps = << >> /\ parsed = << >>
    /\ IdleObs /\ IdleNote /\ IdleBatch /\ IdleMembership

\* `const lines = content.split('\n')` and the initial locals
ParseStart ==
    /\ ppc = "start"
    /\ lines' = split(content, "\n")
    /\ ps' = CASE parser = "ts" -> startTs
               [] parser = "batch" -> startBatch
               [] parser = "single" -> startSingle
    /\ li' = 1
    /\ ppc' = "loop"
    /\ UNCHANGED <<parser, content, parsed, existing, images, paidArea,
                   files, imageFiles, lvars, mvars, ovars, nvars, bvars>>

\* `for (let i = 0; i < lines.length; i++)` in src/index.ts
ParseLineTs ==
    /\ ppc = "loop" /\ parser = "ts" /\ li <= Len(lines)
    /\ ps' = stepTs(ps, lines[li])
    /\ li' = li + 1
    /\ UNCHANGED <<ppc, parser, content, lines, parsed, existing, images,
                   paidArea, files, imageFiles, lvars, mvars, ovars, nvars,
                   bvars>>

\* `for (const line of lines)` in batch-publish.cjs
ParseLineBatch ==
    /\ ppc = "loop" /\ parser = "batch" /\ li <= Len(lines)
    /\ ps' = stepBatch(ps, lines[li])
    /\ li' = li + 1
    /\ UNCHANGED <<ppc, parser, content, lines, parsed, existing, images,
                   paidArea, files, imageFiles, lvars, mvars, ovars, nvars,
                   bvars>>

\* `for (let i = 0; i < lines.length; i++)` in publish_single_article.cjs
ParseLineSingle ==
    /\ ppc = "loop" /\ parser = "single" /\ li <= Len(lines)
    /\ ps' = stepSingle(ps, lines[li])
    /\ li' = li + 1
    /\ UNCHANGED <<ppc, parser, content, lines, parsed, existing, images,
                   paidArea, files, imageFiles, lvars, mvars, ovars, nvars,
                   bvars>>

\* the `return { ... }` of the running parser
ParseReturn ==
    /\ ppc = "loop" /\ li > Len(lines)
    /\ parsed' = CASE parser = "ts" -> returnTs(ps)
                   [] parser = "batch" -> returnBatch(ps)
                   [] parser = "single" -> returnSingle(ps)
    /\ ppc' = "done"
    /\ UNCHANGED <<parser, content, lines, li, ps, existing, images,
                   paidArea, files, imageFiles, lvars, mvars, ovars, nvars,
                   bvars>>

\* `const images = extractImages(body, baseDir)` in postToNote(), and the
\* imagePattern loop of publishArticle() in publish_single_article.cjs;
\* batch-publish.cjs does not look for images
ExtractImages ==
    /\ ppc = "done" /\ parser \in {"ts", "single"}
    /\ images' = IF parser = "ts" THEN extractImages(parsed.body, 1)
                 ELSE imagesToInsert(parsed.body, 1)
    /\ ppc' = "images"
    /\ UNCHANGED <<parser, content, lines, li, ps, parsed, existing, paidArea,
                   files, imageFiles, lvars, mvars, ovars, nvars, bvars>>

\* what the paid-area view can show for a paragraph: a text that does not
\* hold the search text, and one that does
RenderedTexts(searchText) == { <<"z", "z">>, <<">", " ">> \o searchText \o <<".">> }

RECURSIVE RenderedOfLength(_, _)
RenderedOfLength(n, searchText) ==
    IF n = 0 THEN { << >> }
    ELSE { Append(r, t) : r \in RenderedOfLength(n - 1, searchText),
                          t \in RenderedTexts(searchText) }

\* publishArticle() of publish_single_article.cjs in the paid-area view:
\* `if (hasPaidLine && paidLineParagraphIndex > 0)` reads the paragraphs and
\* the buttons of the page and clicks at most one button
PlacePaywall ==
    /\ ppc = "images" /\ parser = "single"
    /\ IF parsed.hasPaidLine /\ parsed.paidLineParagraphIndex > 0
       THEN \E n \in 0..MaxRendered, btnCount \in 0..MaxButtons :
              \E paragraphs \in
                     RenderedOfLength(n, parsed.paidLineSearchText) :
                 paidArea' =
                    [paragraphs |-> paragraphs, btnCount |-> btnCount,
                     clicked |->
                        clickedButtons(
                            buttonIndex(
                                targetParagraphIndex(
                                    paragraphs, parsed.paidLineSearchText),
                                parsed.paidLineParagraphIndex),
                            btnCount)]
       ELSE paidArea' = NoPaidArea
    /\ ppc' = "paywall"
    /\ UNCHANGED <<parser, content, lines, li, ps, parsed, existing, images,
                   files, imageFiles, lvars, mvars, ovars, nvars, bvars>>

NextParse ==
    \/ ParseStart
    \/ ParseLineTs
    \/ ParseLineBatch
    \/ ParseLineSingle
    \/ ParseReturn
    \/ ExtractImages
    \/ PlacePaywall

SpecParse == InitParse /\ [][NextParse]_vars

(***************************************************************************)
(* getImageFiles(imagesDir) of the batch publisher with images: the cover  *)
(* image and the inline images of an images folder                         *)
(***************************************************************************)
\* the last index of s that holds the character c, 0 if none
lastIndexOf(s, c) ==
    IF \E k \in DOMAIN s : s[k] = c
    THEN CHOOSE k \in DOMAIN s : s[k] = c /\ \A j \in (k + 1)..Len(s) : s[j] # c
    ELSE 0

\* path.extname(file): from the last '.' on, '' when there is none or when
\* the name starts with it
extname(file) ==
    LET dot == lastIndexOf(file, ".") IN
    IF dot <= 1 THEN << >> ELSE SubSeq(file, dot, Len(file))

\* path.basename(file, ext): the suffix is removed when the name ends with
\* it, compared as written
basename(file, ext) ==
    IF ext # << >> /\ file # ext /\ endsWith(file, ext)
    THEN SubSeq(file, 1, Len(file) - Len(ext)) ELSE file

\* path.join(imagesDir, file)
joinPath(file) == <<"i", "m", "a", "g", "e", "s", "/">> \o file

\* `imageExtensions.includes(ext)`
isImageExtension(ext) ==
    ext # << >> /\ Head(ext) = "." /\ Tail(ext) \in ImageExtensions

\* name.replace(/\D/g, '')
digitsOnly(name) == SelectSeq(name, isDigit)

\* `parseInt(name.replace(/\D/g, ''), 10) || 0`
numberOf(name) ==
    LET n == parseInt(digitsOnly(name)) IN IF n = << >> THEN 0 ELSE n[1]

RECURSIVE insertSorted(_, _)
\* e put into the sorted list behind every element that does not compare
\* greater (`numA - numB` of a stable sort)
insertSorted(sorted, e) ==
    IF sorted = << >> THEN <<e>>
    ELSE IF numberOf(Head(sorted).name) - numberOf(e.name) <= 0
         THEN <<Head(sorted)>> \o insertSorted(Tail(sorted), e)
         ELSE <<e>> \o sorted

RECURSIVE sortByNumber(_)
\* contentImages.sort((a, b) => numA - numB)
sortByNumber(list) ==
    IF list = << >> THEN << >>
    ELSE insertSorted(sortByNumber(SubSeq(list, 1, Len(list) - 1)),
                      list[Len(list)])

RECURSIVE scanFolder(_, _)
\* `for (const file of files)`: the thumbnail and the content images so far
scanFolder(fs, acc) ==
    IF fs = << >> THEN acc
    ELSE LET file == Head(fs)
             ext == toLowerCase(extname(file))
             baseName == toLowerCase(basename(file, ext))
         IN  scanFolder(Tail(fs),
                 IF ~isImageExtension(ext) THEN acc
                 ELSE IF baseName = <<"t", "h", "u", "m", "b", "n", "a", "i", "l">>
                 THEN [acc EXCEPT !.thumbnail = <<joinPath(file)>>]
                 ELSE [acc EXCEPT !.contentImages =
                          Append(@, [name |-> baseName,
                                     path |-> joinPath(file)])])

\* getImageFiles(imagesDir) for a folder that exists
getImageFiles(fs) ==
    LET found == scanFolder(fs, [thumbnail |-> << >>, contentImages |-> << >>])
        sorted == sortByNumber(found.contentImages)
    IN  [thumbnail |-> found.thumbnail,
         contentImages |-> [k \in DOMAIN sorted |-> sorted[k].path]]

\* the names an images folder is made of
FolderNames ==
    { <<"t", "h", "u", "m", "b", "n", "a", "i", "l", ".", "p", "n", "g">>, <<"T", "h", "u", "m", "b", "n", "a", "i", "l", ".", "P", "N", "G">>, <<"i", "m", "a", "g", "e", "1", ".", "p", "n", "g">>, <<"i", "m", "a", "g", "e", "2", ".", "p", "n", "g">>,
      <<"i", "m", "a", "g", "e", "1", "0", ".", "j", "p", "g">>, <<"a", "1", ".", "w", "e", "b", "p">>, <<"c", "o", "v", "e", "r", ".", "p", "n", "g">>, <<"n", "o", "t", "e", "s", ".", "t", "x", "t">> }

\* the listings of folders of up to MaxFolderFiles files
FolderListings ==
    { l \in UNION { [1..n -> FolderNames] : n \in 0..MaxFolderFiles } :
        \A a, b \in DOMAIN l : a # b => l[a] # l[b] }

InitImages ==
    /\ files \in FolderListings
    /\ imageFiles = << >>
    /\ ppc = "off" /\ parser = "none" /\ content = << >>
    /\ lines = << >> /\ li = 0 /\ ps = << >> /\ parsed = << >>
    /\ existing = {} /\ images = << >> /\ paidArea = NoPaidArea
    /\ finder = "none" /\ dom = << >> /\ located = << >>
    /\ IdleObs /\ IdleNote /\ IdleBatch /\ IdleMembership

\* `const { thumbnail, contentImages } = getImageFiles(imagesDir)`
GetImageFiles ==
    /\ imageFiles = << >>
    /\ imageFiles' = getImageFiles(files)
    /\ UNCHANGED <<ppc, parser, content, lines, li, ps, parsed, existing,
                   images, paidArea, files, lvars, mvars, ovars, nvars, bvars>>

NextImages == GetImageFiles

SpecImages == InitImages /\ [][NextImages]_vars

(***************************************************************************)
(* The lookups of add-membership-benefit.cjs: findMoreButton(),            *)
(* findMembershipMenuItem() and findPlanAddButton().  `dom` says, for each  *)
(* locator of the helper, what the page holds for it.                      *)
(***************************************************************************)
\* the first element a locator matches: none, one that is not visible, or
\* one that `isVisible()` reports
Candidate == {"absent", "hidden", "visible"}

\* `for (const ancestor of ['..', '../..', '../../..'])`
Ancestors == 3

\* `return null`
NotFound == [kind |-> "null"]

\* an awaited call without `.catch()` rejected
Raised == [kind |-> "raised"]

\* `return 'already_added'`
AlreadyAdded == [kind |-> "already_added"]

\* `return <locator>`: the element of the strategy at the index
control(strategy, index) ==
    [kind |-> "control", strategy |-> strategy, index |-> index]

\* the least element of a set of indexes that is not empty
first(set) == CHOOSE k \in set : \A j \in set : k <= j

\* findMoreButton(page)
findMoreButton(d) ==
    IF d.byLabel = "visible" THEN control("byLabel", 1)
    ELSE IF d.countRejects THEN Raised
    ELSE LET hits == { k \in DOMAIN d.dotsButtons :
                         /\ d.dotsButtons[k].textEmpty
                         /\ d.dotsButtons[k].state = "visible"
                         /\ d.dotsButtons[k].boxAbove500 }
         IN  IF hits # {} THEN control("dotsButtons", first(hits))
             ELSE IF d.ellipsis = "visible" THEN control("ellipsis", 1)
             ELSE IF d.byClass = "visible" THEN control("byClass", 1)
             ELSE NotFound

\* `if (text.includes('メンバーシップ') || text.includes('特典')) return item`
menuItemHits(d) == { k \in DOMAIN d.menuItems : d.menuItems[k].textMatches }

\* findMembershipMenuItem(page)
findMembershipMenuItem(d) ==
    IF d.byText = "visible" THEN control("byText", 1)
    ELSE IF d.byPartial = "visible" THEN control("byPartial", 1)
    ELSE IF d.countRejects THEN Raised
    ELSE IF menuItemHits(d) # {}
         THEN control("menuItems", first(menuItemHits(d)))
         ELSE NotFound

RECURSIVE scanListItems(_, _)
\* the loop over listItems from index k on: << >> when it ends without a
\* `return`
scanListItems(d, k) ==
    IF k > Len(d.listItems) THEN << >>
    ELSE LET item == d.listItems[k] IN
         IF item.textMatches /\ item.added THEN <<AlreadyAdded>>
         ELSE IF item.textMatches /\ item.addBtn = "visible"
              THEN <<control("listItems", k)>>
         ELSE IF item.textMatches /\ item.addBtn = "visible_added"
              THEN <<AlreadyAdded>>
         ELSE scanListItems(d, k + 1)

RECURSIVE scanAncestors(_, _)
\* `for (const ancestor of ['..', '../..', '../../..'])` from index k on
scanAncestors(d, k) ==
    IF k > Len(d.ancestors) THEN << >>
    ELSE LET parent == d.ancestors[k] IN
         IF parent.added THEN <<AlreadyAdded>>
         ELSE IF parent.addBtn = "visible" THEN <<control("ancestors", k)>>
         ELSE scanAncestors(d, k + 1)

\* findPlanAddButton(page, planPattern, planName): both blocks are inside
\* `try { ... } catch {}`
findPlanAddButton(d) ==
    LET inList == IF d.countRejects THEN << >> ELSE scanListItems(d, 1)
        byText == IF d.planText = "visible" THEN scanAncestors(d, 1)
                  ELSE << >>
    IN  IF inList # << >> THEN inList[1]
        ELSE IF byText # << >> THEN byText[1]
        ELSE NotFound

\* the elements a locator with several matches can hold
Elements == [textEmpty : BOOLEAN, state : {"hidden", "visible"},
             boxAbove500 : BOOLEAN]

MenuElements == [textMatches : BOOLEAN, state : {"hidden", "visible"}]

ButtonStates == {"absent", "hidden", "visible", "visible_added"}

ListElements == [textMatches : BOOLEAN, added : BOOLEAN,
                 addBtn : ButtonStates]

AncestorElements == [added : BOOLEAN, addBtn : ButtonStates]

\* the sequences over a set of up to n elements
SeqsUpTo(S, n) == UNION { [1..m -> S] : m \in 0..n }

\* the pages the helper with the given name can be called on
Doms(name) ==
    CASE name = "more" ->
            [byLabel : Candidate, countRejects : BOOLEAN,
             dotsButtons : SeqsUpTo(Elements, MaxMatches),
             ellipsis : Candidate, byClass : Candidate]
      [] name = "menu" ->
            [byText : Candidate, byPartial : Candidate,
             countRejects : BOOLEAN,
             menuItems : SeqsUpTo(MenuElements, MaxMatches)]
      [] name = "plan" ->
            [countRejects : BOOLEAN,
             listItems : SeqsUpTo(ListElements, MaxMatches),
             planText : Candidate,
             ancestors : [1..Ancestors -> AncestorElements]]

InitLocate ==
    /\ finder \in {"more", "menu", "plan"}
    /\ dom \in Doms(finder)
    /\ located = << >>
    /\ ppc = "off" /\ parser = "none" /\ content = << >>
    /\ lines = << >> /\ li = 0 /\ ps = << >> /\ parsed = << >>
    /\ existing = {} /\ images = << >> /\ paidArea = NoPaidArea
    /\ files = << >> /\ imageFiles = << >>
    /\ IdleObs /\ IdleNote /\ IdleBatch /\ IdleMembership

\* `const moreButton = await findMoreButton(page)`
FindMoreButton ==
    /\ finder = "more" /\ located = << >>
    /\ located' = <<findMoreButton(dom)>>
    /\ UNCHANGED <<finder, dom, ppc, parser, content, lines, li, ps, parsed,
                   existing, images, paidArea, files, imageFiles, mvars,
                   ovars, nvars, bvars>>

\* `const membershipMenuItem = await findMembershipMenuItem(page)`
FindMembershipMenuItem ==
    /\ finder = "menu" /\ located = << >>
    /\ located' = <<findMembershipMenuItem(dom)>>
    /\ UNCHANGED <<finder, dom, ppc, parser, content, lines, li, ps, parsed,
                   existing, images, paidArea, files, imageFiles, mvars,
                   ovars, nvars, bvars>>

\* `const result = await findPlanAddButton(page, plan.pattern, plan.name)`
FindPlanAddButton ==
    /\ finder = "plan" /\ located = << >>
    /\ located' = <<findPlanAddButton(dom)>>
    /\ UNCHANGED <<finder, dom, ppc, parser, content, lines, li, ps, parsed,
                   existing, images, paidArea, files, imageFiles, mvars,
                   ovars, nvars, bvars>>

NextLocate == FindMoreButton \/ FindMembershipMenuItem \/ FindPlanAddButton

SpecLocate == InitLocate /\ [][NextLocate]_vars

(***************************************************************************)
(* Claims about parseMarkdown()                                            *)
(***************************************************************************)
Delimiter == <<"-", "-", "-">>

PriceKey == <<"p", "r", "i", "c", "e", ":">>

\* the document opens with a delimiter line and line c is the next one
closesAt(c) ==
    /\ c \in 2..Len(lines)
    /\ trim(lines[1]) = Delimiter
    /\ trim(lines[c]) = Delimiter
    /\ \A k \in 2..(c - 1) : trim(lines[k]) # Delimiter

\* the integers of the price lines between line 1 and line c
frontMatterPrices(c) ==
    { parseInt(substring(lines[k], 6)) :
        k \in { n \in 2..(c - 1) : startsWith(lines[n], PriceKey) } }

\* C14: when every price given in the front matter is an integer below 100
\* or above 50000, the parsed price is absent: not clamped to a limit and
\* not kept as given.
C14_OutOfRangePriceAbsent ==
    ppc = "done" =>
        \A c \in 2..Len(lines) :
            (/\ closesAt(c)
             /\ frontMatterPrices(c) # {}
             /\ \A p \in frontMatterPrices(c) :
                    p # << >> /\ (p[1] < 100 \/ p[1] > 50000))
            => parsed.price = << >>

PaidMarker ==
    <<"<", "!", "-", "-", " ", "p", "a", "i", "d", " ", "-", "-", ">">>

isBlank(l) == trim(l) = << >>

\* whether a line is some marker spelling: lower-cased and with all white
\* space ignored it reads <!--paid-->
isSentinel(l) ==
    toLowerCase(SelectSeq(l, LAMBDA c : c \notin WhiteSpace)) =
        <<"<", "!", "-", "-", "p", "a", "i", "d", "-", "-", ">">>

\* a document of plain body lines: no delimiter-like line and no heading
plainBody ==
    \A k \in DOMAIN lines :
        /\ ~startsWith(trim(lines[k]), Delimiter)
        /\ ~startsWith(lines[k], <<"#", " ">>)

\* line m is the only marker line of the document
onlyMarkerAt(m) ==
    /\ m \in DOMAIN lines
    /\ \A k \in DOMAIN lines : (trim(lines[k]) = PaidMarker) <=> (k = m)
    /\ \A k \in DOMAIN lines : k # m => ~isSentinel(lines[k])

\* the lines before line m at which a paragraph begins: a non-blank line
\* at the start or after a blank line
paragraphStarts(m) ==
    { j \in 1..(m - 1) :
        ~isBlank(lines[j]) /\ (j = 1 \/ isBlank(lines[j - 1])) }

\* the start of the last paragraph before line m
lastStart(m) ==
    CHOOSE j \in paragraphStarts(m) : \A n \in paragraphStarts(m) : n <= j

\* that paragraph is a single line
oneLineParagraph(m) ==
    lastStart(m) = m - 1 \/ isBlank(lines[lastStart(m) + 1])

\* C15: when the marker follows the k-th paragraph (k >= 1), a paragraph
\* being a maximal run of non-blank body lines, the parsers of
\* batch-publish.cjs and publish_single_article.cjs return the paragraph
\* index k, and the search text is the first 30 characters of that
\* paragraph's trimmed text.
C15_MarkerAfterParagraphK ==
    (ppc = "done" /\ parser \in {"batch", "single"} /\ plainBody) =>
        \A m \in DOMAIN lines :
            (onlyMarkerAt(m) /\ paragraphStarts(m) # {}) =>
                /\ parser = "batch" =>
                      parsed.paidLinePosition =
                          Cardinality(paragraphStarts(m))
                /\ parser = "single" =>
                      /\ parsed.paidLineParagraphIndex =
                            Cardinality(paragraphStarts(m))
                      /\ oneLineParagraph(m) =>
                            parsed.paidLineSearchText =
                                substringTo(trim(lines[lastStart(m)]), 30)

\* the text of the example document
ExampleContent == joinLines(ExampleDoc)

\* the fields of the example that no parser disputes
exampleHead ==
    /\ parsed.title = <<"D", "e", "m", "o">>
    /\ parsed.price = <<300>>
    /\ parsed.tags = << <<"a">>, <<"b">> >>
    /\ parser = "single" =>
          /\ parsed.paidLineParagraphIndex = 1
          /\ parsed.paidLineSearchText =
                <<"I", "n", "t", "r", "o", ".">>
    /\ parser = "ts" => parsed.paidLineIndex = <<1>>

bodyLines == split(parsed.body, "\n")

isHeading(l) == startsWith(l, <<"#", " ">>)

\* a line of plain text: not blank, no heading, no marker, no dashes
isText(l) ==
    /\ ~isBlank(l) /\ ~isHeading(l) /\ ~isSentinel(l)
    /\ ~startsWith(trim(l), Delimiter)

\* the document opens with a delimiter line that is never closed
unclosedFrontMatter ==
    /\ Len(lines) >= 2
    /\ trim(lines[1]) = Delimiter
    /\ \A k \in 2..Len(lines) : trim(lines[k]) # Delimiter

\* C17: when the input opens with a `---` line and no second `---` line
\* follows, it is parsed as a document without front matter: the text lines
\* after the opening line are in the body, and the first `# ` heading among
\* them is the title.
C17_UnclosedFrontMatterIsBody ==
    (ppc = "done" /\ unclosedFrontMatter) =>
        /\ \A k \in 2..Len(lines) :
              isText(lines[k]) =>
                 \E b \in DOMAIN bodyLines : trim(bodyLines[b]) = trim(lines[k])
        /\ \A k \in 2..Len(lines) :
              (isHeading(lines[k])
                  /\ \A j \in 2..(k - 1) : ~isHeading(lines[j])) =>
                 parsed.title = titleOrUntitled(trim(substring(lines[k], 2)))

\* line h is the only `# ` heading, the document does not open with a
\* delimiter line, and it has no marker line
headingOnlyAt(h) ==
    /\ h \in DOMAIN lines
    /\ \A k \in DOMAIN lines : isHeading(lines[k]) <=> (k = h)
    /\ trim(lines[1]) # Delimiter
    /\ \A k \in DOMAIN lines : ~isSentinel(lines[k])

\* the text that remains when line h is taken out
withoutLine(h) ==
    joinLines(SubSeq(lines, 1, h - 1) \o SubSeq(lines, h + 1, Len(lines)))

\* C18: for a document with no front matter and a single `# Title` heading
\* the title is the heading text and the body is the remaining text with
\* only the heading line removed, trimmed at its ends.
C18_HeadingRoundTrip ==
    ppc = "done" =>
        \A h \in DOMAIN lines :
            headingOnlyAt(h) =>
                /\ parsed.title = trim(substring(lines[h], 2))
                /\ parsed.body = trim(withoutLine(h))

\* the line is the marker when case and surrounding white space are ignored
isMarkerLine(l) == toLowerCase(trim(l)) = PaidMarker

\* C19: no line of the parsed body is a paywall marker: every body line
\* that matches the marker case-insensitively, surrounding white space
\* ignored, is recognised and removed.
C19_NoMarkerInBody ==
    ppc = "done" =>
        \A b \in DOMAIN bodyLines : ~isMarkerLine(bodyLines[b])

\* line k is a `---` line met after body text: in a document that does not
\* open with a delimiter it is the first `---` line and text precedes it;
\* in a document with front matter it comes after the closing delimiter and
\* after some text
ruleInBody(k) ==
    /\ k \in DOMAIN lines
    /\ trim(lines[k]) = Delimiter
    /\ \/ /\ trim(lines[1]) # Delimiter
          /\ \A j \in 1..(k - 1) : trim(lines[j]) # Delimiter
          /\ \E j \in 1..(k - 1) : isText(lines[j])
       \/ \E c \in 2..(k - 1) :
             /\ closesAt(c)
             /\ \E j \in (c + 1)..(k - 1) : isText(lines[j])

\* C20: a `---` line that comes after body content has begun is kept as a
\* body line, with and without front matter: it opens no front-matter
\* block, and the text lines after it are in the body.
C20_RuleKeptInBody ==
    ppc = "done" =>
        \A k \in DOMAIN lines :
            ruleInBody(k) =>
                /\ \E b \in DOMAIN bodyLines : trim(bodyLines[b]) = Delimiter
                /\ \A j \in (k + 1)..Len(lines) :
                      isText(lines[j]) =>
                         \E b \in DOMAIN bodyLines :
                            trim(bodyLines[b]) = trim(lines[j])

TitleKey == <<"t", "i", "t", "l", "e", ":">>

TagsKey == <<"t", "a", "g", "s", ":">>

\* the line that closes the leading front matter, 0 when the document has
\* no leading block closed by a second delimiter line
frontMatterEnd ==
    IF \E c \in 2..Len(lines) : closesAt(c)
    THEN CHOOSE c \in 2..Len(lines) : closesAt(c)
    ELSE 0

\* the lines of the leading front matter
frontMatterRange == 2..(frontMatterEnd - 1)

\* the non-empty titles given in the front matter
frontMatterTitles ==
    { stripQuotes(trim(substring(lines[k], 6))) :
        k \in { n \in frontMatterRange : startsWith(lines[n], TitleKey) } }
        \ { << >> }

\* the `# ` headings with a text, outside the front matter
headingLines ==
    { k \in (frontMatterEnd + 1)..Len(lines) :
        isHeading(lines[k]) /\ trim(substring(lines[k], 2)) # << >> }

firstHeadingText ==
    LET h == CHOOSE k \in headingLines : \A j \in headingLines : k <= j IN
    trim(substring(lines[h], 2))

Untitled == <<"U", "n", "t", "i", "t", "l", "e", "d">>

\* C21: every parse of src/index.ts finishes with a title that is the
\* front-matter title when one is given, otherwise the text of the first
\* `# ` heading, otherwise "Untitled"; the tags are empty when the front
\* matter has no `tags:` key or `-` line, and the price is absent when the
\* front matter gives no integer within 100..50000.
C21_DegradesToDefaults ==
    (ppc = "done" /\ parser = "ts") =>
        /\ parsed.title =
              IF frontMatterTitles # {}
              THEN CHOOSE t \in frontMatterTitles : TRUE
              ELSE IF headingLines # {} THEN firstHeadingText
              ELSE Untitled
        /\ (\A k \in frontMatterRange :
                ~startsWith(lines[k], TagsKey)
                    /\ ~startsWith(trim(lines[k]), <<"-">>))
            => parsed.tags = << >>
        /\ (\A k \in frontMatterRange :
                startsWith(lines[k], PriceKey)
                    => ~priceInRange(parseInt(trim(substring(lines[k], 6)))))
            => parsed.price = << >>

\* a `tags:` line with a bracketed list, and one with no value
isBracketTags(l) ==
    /\ startsWith(l, TagsKey)
    /\ startsWith(trim(substring(l, 5)), <<"[">>)
    /\ endsWith(trim(substring(l, 5)), <<"]">>)

isEmptyTags(l) == startsWith(l, TagsKey) /\ trim(substring(l, 5)) = << >>

isDashLine(l) == startsWith(trim(l), <<"-">>)

\* a line that begins with a word and a colon
isKeyLine(l) ==
    \E n \in 2..Len(l) : l[n] = ":" /\ \A m \in 1..(n - 1) : l[m] \in WordChars

\* the non-empty tokens of a bracketed list, in order
bracketTokens(l) ==
    LET items == split(sliceInner(trim(substring(l, 5))), ",") IN
    filterBoolean([k \in DOMAIN items |-> stripQuotes(trim(items[k]))])

\* the tag tokens of front-matter lines k.. in source order, where
\* `continuing` says that a run of `-` lines after an empty `tags:` key is
\* still open
RECURSIVE tagTokens(_, _)
tagTokens(k, continuing) ==
    IF k >= frontMatterEnd THEN << >>
    ELSE LET l == lines[k] IN
         IF isBracketTags(l) THEN bracketTokens(l) \o tagTokens(k + 1, FALSE)
         ELSE IF isEmptyTags(l) THEN tagTokens(k + 1, TRUE)
         ELSE IF isDashLine(l)
         THEN (IF continuing THEN filterBoolean(<<dashTag(l)>>) ELSE << >>)
                  \o tagTokens(k + 1, continuing)
         ELSE IF isKeyLine(l) THEN tagTokens(k + 1, FALSE)
         ELSE tagTokens(k + 1, continuing)

\* every `tags:` line of the front matter is a bracketed list or an empty key
tagsInListForm ==
    \A k \in frontMatterRange :
        startsWith(lines[k], TagsKey)
            => isBracketTags(lines[k]) \/ isEmptyTags(lines[k])

C22_WitnessClosedRun ==
    /\ ppc = "done" /\ parser \in {"ts", "batch"}
    /\ frontMatterEnd = 5
    /\ isEmptyTags(lines[2]) /\ isKeyLine(lines[3])
    /\ ~startsWith(lines[3], TitleKey) /\ isDashLine(lines[4])
    /\ parsed.tags = << >>

(***************************************************************************)
(* Claims about the runner, continued                                      *)
(***************************************************************************)
\* C23: in a dry run no step of the plan loop activates the add control of
\* any job, whatever the search for the control returned.
C23_DryRunNeverClicks == DRY_RUN => ~planLog.clicked

\* a dry-run job located the add control, left it alone and went on to be
\* recorded
C23_Witness ==
    /\ DRY_RUN /\ pc = "close"
    /\ planLog = [found |-> "button", clicked |-> FALSE]

\* a dry-run job found the article already added
C23_WitnessAlreadyAdded ==
    /\ DRY_RUN /\ pc = "close"
    /\ planLog = [found |-> "already_added", clicked |-> FALSE]

(***************************************************************************)
(* Claims about batch-publish.cjs, continued                               *)
(***************************************************************************)
\* publishArticle() is running on allFiles[fidx]
publishing == bpc \notin {"off", "start", "next", "pace", "exit"}

\* C24: the file being published has a leading number n with
\* START_NUM <= n <= END_NUM, every number taken up before it is smaller,
\* and no file with its number has been published before in the run; a file
\* whose name begins with no number is never published.
C24_RangeOrderOncePerNumber ==
    publishing =>
        LET n == numOf(allFiles[fidx]) IN
        /\ inRange(n)
        /\ \A m \in processedNums \ {n} : m # << >> /\ m[1] < n[1]
        /\ n \notin DOMAIN outcome

(***************************************************************************)
(* Claims about termination, under SpecLive                                *)
(***************************************************************************)
\* the polling loops of publishArticle() stay within their maximum
loopsBounded ==
    /\ bpc = "b_submit_poll" => tries <= EnableTries
    /\ bpc = "b_modal" => tries <= ModalTries
    /\ bpc = "b_complete" => tries <= PollTries

\* main() has ended; no job is running then
ended == pc = "exit" \/ bpc = "exit"

\* C25: no polling loop of a job runs beyond its fixed number of
\* iterations, and every run reaches the end of main(), where no job is
\* left running: each job has reached its end (returned, skipped or
\* caught), also when jobs keep failing or a session restart fails.
C25_NoUnboundedWait ==
    /\ [](loopsBounded)
    /\ [](ended => ~publishing /\ pc \notin JobPcs)
    /\ <>ended

\* the completion wait of a job used up its sixty polls and the job returned
C25_Witness ==
    /\ bpc = "pace" /\ warned /\ observed = "none"
    /\ outcome[numOf(allFiles[fidx])] = "ok"

\* a batch ended because a session restart failed
C25_WitnessRestartFailed ==
    /\ pc = "exit" /\ restartFrom # "none" /\ i < Len(filtered)

(***************************************************************************)
(* Claims about src/index.ts, continued                                    *)
(***************************************************************************)
\* a publish_note call with a price outside 100..50000, a missing Markdown
\* file or a missing state file, or a call of a tool that does not exist
rejectedCall ==
    \/ req.tool = "unknown_tool"
    \/ /\ req.tool = "publish_note"
       /\ \/ req.price # <<>> /\ (req.price[1] < 100 \/ req.price[1] > 50000)
          \/ ~req.mdExists
          \/ ~req.stateExists

\* C26: such a call launches no browser and touches no control at any
\* time, and what it returns is the structured error (success false,
\* isError).
C26_RejectedBeforeLaunch ==
    rejectedCall =>
        /\ nBrowser = "none" /\ ui = NoUi /\ ~screenshot
        /\ npc = "returned" =>
              result.kind = "Error" /\ result.success = FALSE

\* a publish_note call with a price above the maximum has been answered
C26_Witness ==
    /\ npc = "returned" /\ req.tool = "publish_note"
    /\ req.price = <<50001>> /\ req.mdExists /\ req.stateExists
    /\ result.kind = "Error" /\ nBrowser = "none"

\* a publish_note call without a state file has been answered
C26_WitnessNoStateFile ==
    /\ npc = "returned" /\ req.tool = "publish_note"
    /\ req.price = <<300>> /\ req.mdExists /\ ~req.stateExists
    /\ result.kind = "Error" /\ nBrowser = "none"

(***************************************************************************)
(* Claims about the image references                                       *)
(***************************************************************************)
\* a line that is one image reference, and the path it names
isImageLine(l) == startsWith(l, <<"!", "[">>) /\ endsWith(l, <<")">>)

pathOf(l) ==
    LET open == CHOOSE k \in 1..Len(l) : l[k] = "(" IN
    SubSeq(l, open + 1, Len(l) - 1)

isUrl(path) == startsWith(path, <<"h", "t", "t", "p", ":", "/", "/">>) \/ startsWith(path, <<"h", "t", "t", "p", "s", ":", "/", "/">>)

\* the path below the document's directory
belowDocument(path) ==
    IF startsWith(path, <<".", "/">>) THEN SubSeq(path, 3, Len(path))
    ELSE path

isResolvable(l) ==
    isImageLine(l) /\ ~isUrl(pathOf(l)) /\ belowDocument(pathOf(l)) \in existing

\* the references the scan returned, as written in the document
foundReferences == [k \in DOMAIN images |-> images[k].placeholder]

\* C27: the scan for images ends for every body and returns exactly the
\* image references that are no http/https URL and whose file exists, in
\* document order; a reference to a file that does not exist is left out
\* and nothing is raised.
C27_ImagesResolvedSoftly ==
    ppc = "images" => foundReferences = SelectSeq(lines, isResolvable)

(***************************************************************************)
(* Claims about the progress store and restarts, under Spec                *)
(***************************************************************************)
\* no value occurs twice in the list
noDuplicates(list) ==
    \A a, b \in DOMAIN list : a # b => list[a] # list[b]

\* C28: in the progress file no job identity occurs more than once in
\* completed and none occurs more than once in failed, whatever jobs,
\* failures, restarts and resumed runs came before.
C28_StoreHoldsSets ==
    /\ noDuplicates(progressFile.completed)
    /\ noDuplicates(progressFile.failed)

\* authentication was found missing (no session-state file) or rejected (the
\* dashboard check, at the start of the run or inside restartBrowser())
authenticationExpired ==
    \/ stopReason \in {"no state file", "login required"}
    \/ err = "login required"

\* C29: once authentication is found missing or rejected, at the start of
\* the run or in the check that follows a restart, no further job is started
\* and no further browser is launched in that run.
C29_AuthExpiryIsFatal ==
    [][authenticationExpired =>
          /\ generation' = generation
          /\ visited' = visited]_vars

\* the job failed with the message of a browser whose channel is gone
sessionBroken == err = "Target closed"

\* the restart called from the catch block returned without throwing
restartSucceeded ==
    pc = "restart_verify" /\ restartFrom = "catch" /\ throws' = throws

\* C30: a job failure classified as session-broken starts a restart at once,
\* also when the consecutive-failure counter is below the threshold; after a
\* successful restart the counter is 0 and the loop goes on with the next job.
C30_CrashRestartsAtOnce ==
    [][/\ (pc = "catch" /\ sessionBroken) =>
              (pc' = "restart_close" /\ i' = i /\ ~waited')
       /\ (sessionBroken /\ restartSucceeded) =>
              (consecutiveErrors' = 0 /\ i' = i + 1 /\ pc' = loopPc(i + 1))]_vars

\* a crash below the threshold was followed by a successful restart: the
\* next job is about to start in a newer browser with the counter at 0
C30_Witness ==
    /\ pc = "goto" /\ i > 1
    /\ sessionBroken /\ ~tripped
    /\ jobGen < generation
    /\ consecutiveErrors = 0

\* the restart has been started by a crash with the counter below the threshold
C30_WitnessBelowThreshold ==
    /\ pc = "restart_close" /\ restartFrom = "catch"
    /\ sessionBroken
    /\ consecutiveErrors < THRESHOLD

(***************************************************************************)
(* Claims about the order of the steps of one job and about its browser    *)
(***************************************************************************)
\* the settings steps done so far: tags, monetization, collection
settingsOf(u) == <<u.tags, u.paid, u.magazine, u.twitter>>

\* the job of the call has reached its terminal state
terminal == npc = "returned"

\* C31: within one job the UI steps happen in the fixed order title set,
\* body injected, (images attached), advance to settings, (tags),
\* (monetization), (collection), submit clicked, confirmation handled,
\* terminal; no settings step occurs before the advance to settings or after
\* the submit click, and no step occurs after the terminal state.
C31_StepsInFixedOrder ==
    [][/\ (ui'.title # ui.title) => ~ui.body
       /\ (ui'.body # ui.body) => (ui.title /\ ~ui.advanced)
       /\ (ui'.thumb # ui.thumb) => (ui.body /\ ~ui.advanced)
       /\ (ui'.advanced # ui.advanced) =>
              (ui.body /\ settingsOf(ui) = settingsOf(NoUi))
       /\ (settingsOf(ui') # settingsOf(ui)) =>
              (ui.advanced /\ ui.submitClicks = 0)
       /\ (ui'.tags # ui.tags) => (ui.paid = "no" /\ ~ui.magazine)
       /\ (ui'.paid # ui.paid) => ~ui.magazine
       /\ (ui'.submitClicks # ui.submitClicks) =>
              (ui.advanced /\ observed = "none")
       /\ (observed' # observed) => ui.submitClicks > 0
       /\ terminal => (ui' = ui /\ observed' = observed)]_vars

\* C32: at every moment of a batch run at most one browser is open: a
\* restart closes the old browser before the new one is created, every UI
\* action of a job goes to the newest browser, and each restart raises the
\* generation by exactly one.
C32_OneSessionAtATime ==
    [][/\ (generation' # generation) =>
              (~browserOpen /\ browserOpen' /\ generation' = generation + 1)
       /\ (pc = "restart_launch" /\ pc' = "restart_verify") =>
              generation' = generation + 1
       /\ (pc \in JobPcs) => (browserOpen /\ jobGen' = generation)]_vars

\* a job acts on the browser that a restart created
C32_Witness ==
    /\ pc = "menu" /\ browserOpen
    /\ generation >= 2 /\ jobGen = generation

(***************************************************************************)
(* Claims about the paywall line                                           *)
(***************************************************************************)
\* the ordinals (from 0) of the rendered paragraphs that contain the text
containing(paragraphs, text) ==
    { k - 1 : k \in { j \in DOMAIN paragraphs : includes(paragraphs[j], text) } }

\* the ordinal the control is to be taken from: that of the first paragraph
\* containing the search text, else paywallParagraphIndex - 1
chosenOrdinal ==
    LET c == containing(paidArea.paragraphs, parsed.paidLineSearchText) IN
    IF c # {} THEN CHOOSE k \in c : \A j \in c : k <= j
    ELSE parsed.paidLineParagraphIndex - 1

\* C33: paywall placement when paywallParagraphIndex > 0: if some rendered
\* paragraph contains paywallSearchText, the move-paywall control whose
\* ordinal is that of the first such paragraph is activated; if none does,
\* the control at ordinal paywallParagraphIndex - 1 is activated; at most one
\* control is activated per job, and none when the chosen ordinal lies
\* outside the control list.
C33_PaywallPlacement ==
    (ppc = "paywall" /\ parsed.paidLineParagraphIndex > 0) =>
        /\ Len(paidArea.clicked) <= 1
        /\ paidArea.clicked =
              IF chosenOrdinal \in 0..(paidArea.btnCount - 1)
              THEN <<chosenOrdinal>> ELSE << >>

\* parseMarkdown() of publish_single_article.cjs has returned
singleParsed == parser = "single" /\ ppc \in {"done", "images", "paywall"}

\* the lines of the document that are a paywall marker
markerLinesOf(ls) == { k \in DOMAIN ls : trim(ls[k]) = PaidMarker }

\* no line of text comes before the last marker of the document
markerBeforeAnyParagraph(ls) ==
    /\ markerLinesOf(ls) # {}
    /\ \A k \in DOMAIN ls :
          (\E m \in markerLinesOf(ls) : k < m) =>
              (trim(ls[k]) = << >> \/ k \in markerLinesOf(ls))

\* C34: the parser's paywall fields are consistent for every input:
\* paywallSearchText is non-empty only if paywallParagraphIndex > 0, it is
\* never longer than 30 characters, and a document without a marker (or with
\* the marker before any paragraph) has an empty search text and is reported
\* as having no explicit paywall line.
C34_PaywallFieldsConsistent ==
    singleParsed =>
        /\ parsed.paidLineSearchText # << >> =>
              parsed.paidLineParagraphIndex > 0
        /\ Len(parsed.paidLineSearchText) <= 30
        /\ (markerLinesOf(lines) = {} \/ markerBeforeAnyParagraph(lines)) =>
              (parsed.paidLineSearchText = << >> /\ ~parsed.hasPaidLine)

\* a paragraph of more than 30 characters precedes the marker
C34_Witness ==
    /\ singleParsed
    /\ parsed.paidLineParagraphIndex > 0
    /\ Len(parsed.paidLineSearchText) = 30
    /\ \E k \in DOMAIN lines : Len(lines[k]) > 30

\* the marker is the first line that is not blank
C34_WitnessMarkerFirst ==
    /\ singleParsed
    /\ markerBeforeAnyParagraph(lines)
    /\ \E k \in DOMAIN lines : trim(lines[k]) \notin {<< >>, PaidMarker}
    /\ parsed.paidLineParagraphIndex = 0

\* the document has no marker but has paragraphs
C34_WitnessNoMarker ==
    /\ singleParsed
    /\ markerLinesOf(lines) = {}
    /\ parsed.paidLineParagraphIndex = -1
    /\ parsed.body # << >>

(***************************************************************************)
(* Claims about the images folder                                          *)
(***************************************************************************)
\* the name without its extension, in lower case
baseNameOf(file) ==
    LET dot == lastIndexOf(file, ".") IN
    toLowerCase(IF dot <= 1 THEN file ELSE SubSeq(file, 1, dot - 1))

\* the file is an image, by its extension in any case
isImageFile(file) == isImageExtension(toLowerCase(extname(file)))

isCover(file) ==
    isImageFile(file) /\ baseNameOf(file) = <<"t", "h", "u", "m", "b", "n", "a", "i", "l">>

\* the file name holds a digit
hasNumber(file) == \E k \in DOMAIN baseNameOf(file) : isDigit(baseNameOf(file)[k])

\* position of the path in the listing of the folder
listedAt(path) == CHOOSE k \in DOMAIN files : joinPath(files[k]) = path

\* a comes before b: by number, files without a number last, ties as listed
inOrder(a, b) ==
    LET fa == files[listedAt(a)]
        fb == files[listedAt(b)]
    IN  /\ hasNumber(fb) => hasNumber(fa)
        /\ (hasNumber(fa) /\ hasNumber(fb)) => numberOf(baseNameOf(fa)) <= numberOf(baseNameOf(fb))
        /\ (hasNumber(fa) = hasNumber(fb)
              /\ numberOf(baseNameOf(fa)) = numberOf(baseNameOf(fb)))
           => listedAt(a) < listedAt(b)

\* C35: in an images folder the file whose base name is `thumbnail`
\* (case-insensitive) is the cover image and is never listed as inline; all
\* other image files are inline, ordered ascending by the number embedded in
\* their file name, with files that have no number sorted last and ties kept
\* in their original order.
C35_CoverAndInlineOrder ==
    imageFiles # << >> =>
        LET inline == imageFiles.contentImages IN
        /\ \A k \in DOMAIN files :
              isCover(files[k]) =>
                 /\ imageFiles.thumbnail # << >>
                 /\ \A j \in DOMAIN inline : inline[j] # joinPath(files[k])
        /\ imageFiles.thumbnail # << >> =>
              \E k \in DOMAIN files :
                 isCover(files[k]) /\ imageFiles.thumbnail[1] = joinPath(files[k])
        /\ \A k \in DOMAIN files :
              (isImageFile(files[k]) /\ ~isCover(files[k])) =>
                 \E j \in DOMAIN inline : inline[j] = joinPath(files[k])
        /\ Len(inline) <= Len(files)
        /\ \A a, b \in DOMAIN inline : a < b => inOrder(inline[a], inline[b])

(***************************************************************************)
(* Claims about the lookups                                                *)
(***************************************************************************)
\* the strategies of each helper, in the order of their priority
Strategies ==
    [more |-> <<"byLabel", "dotsButtons", "ellipsis", "byClass">>,
     menu |-> <<"byText", "byPartial", "menuItems">>,
     plan |-> <<"listItems", "ancestors">>]

\* the state of the element of a strategy at an index: absent, hidden or
\* visible
stateOf(strategy, index) ==
    CASE strategy \in {"byLabel", "ellipsis", "byClass", "byText", "byPartial"}
            -> dom[strategy]
      [] strategy \in {"dotsButtons", "menuItems"} -> dom[strategy][index].state
      [] strategy \in {"listItems", "ancestors"} ->
            IF dom[strategy][index].addBtn = "visible_added" THEN "visible"
            ELSE dom[strategy][index].addBtn

\* the helper has returned, and what
returned == located # << >>

\* no locator of the page holds a visible element
nothingVisible ==
    CASE finder = "more" ->
            /\ dom.byLabel # "visible" /\ dom.ellipsis # "visible"
            /\ dom.byClass # "visible"
            /\ \A k \in DOMAIN dom.dotsButtons :
                  dom.dotsButtons[k].state # "visible"
      [] finder = "menu" ->
            /\ dom.byText # "visible" /\ dom.byPartial # "visible"
            /\ \A k \in DOMAIN dom.menuItems :
                  dom.menuItems[k].state # "visible"
      [] finder = "plan" ->
            /\ \A k \in DOMAIN dom.listItems :
                  dom.listItems[k].addBtn \in {"absent", "hidden"}
            /\ \A k \in DOMAIN dom.ancestors :
                  dom.ancestors[k].addBtn \in {"absent", "hidden"}

\* position of a strategy in the priority order of the running helper
rank(strategy) ==
    CHOOSE k \in DOMAIN Strategies[finder] : Strategies[finder][k] = strategy

\* C36: a lookup tries its strategies in a fixed priority order and returns
\* the first control that is both present and visible; a control that is
\* present but not visible is never returned; when no strategy matches it
\* returns a not-found value instead of raising.
C36_FirstVisibleOrNotFound ==
    returned =>
        /\ located[1].kind = "control" =>
              /\ stateOf(located[1].strategy, located[1].index) = "visible"
              /\ \A k \in 1..(rank(located[1].strategy) - 1) :
                    Strategies[finder][k] \in
                        {"byLabel", "ellipsis", "byClass", "byText", "byPartial"}
                    => dom[Strategies[finder][k]] # "visible"
        /\ located[1].kind # "raised"
        /\ (nothingVisible /\ located[1].kind # "already_added") =>
              located[1] = NotFound

(***************************************************************************)
(* Claims about the progress file and the counter, under Spec              *)
(***************************************************************************)
\* C37: no job identity is in both completed and failed of the progress
\* file, also when an error is raised after the completed entry was written
\* and when a job that failed before succeeds in a resumed run.
C37_CompletedAndFailedDisjoint ==
    Range(progressFile.completed) \cap Range(progressFile.failed) = {}

\* a restart returned without throwing
restartReturned == pc = "restart_verify" /\ throws' = throws

C38_WitnessFour ==
    pc = "goto" /\ consecutiveErrors = 4 /\ i > 4

\* C39: a dry run leaves the progress file unchanged: no job visited in
\* dry-run mode is added to completed, so a later run with resume still
\* processes every job the dry run visited.
C39_DryRunLeavesStoreUnchanged ==
    DRY_RUN =>
        \A k \in DOMAIN visited :
            visited[k] \in Range(progressFile.completed)
                => visited[k] \in startCompleted

(***************************************************************************)
(* Claims about the browser of a single call, under SpecNoteLive           *)
(***************************************************************************)
\* C40: every browser launched by a publish or draft call is eventually
\* closed, on the success path, on the draft path and on every failure path,
\* before the call returns or rethrows; no call returns with its browser
\* open.
C40_BrowserClosedBeforeReturn ==
    /\ [](npc = "returned" => nBrowser # "open")
    /\ [](nBrowser = "closed" => npc = "returned")
    /\ <>(npc = "returned")

\* a published call has returned with its browser closed
C40_Witness ==
    npc = "returned" /\ nBrowser = "closed" /\ result.kind = "Published"

\* a saved draft has returned with its browser closed
C40_WitnessDraft ==
    npc = "returned" /\ nBrowser = "closed" /\ result.kind = "DraftSaved"

\* a call that failed after the launch has returned with its browser closed
C40_WitnessFailure ==
    npc = "returned" /\ nBrowser = "closed" /\ result.kind = "Error"

====
